---- MODULE Spec2Model ----
(***************************************************************************)
(* A model of the 6502 interpreter of the emulator crate                   *)
(* (emulator/src/cpu): the register file, the status byte, the flat        *)
(* memory array, the operand resolver, the stack, the executors and the    *)
(* fetch-decode-execute step, together with load / reset / run.            *)
(*                                                                         *)
(* The CPU is handled as a record (the struct Cpu); every method of the    *)
(* source is an operator from a Cpu record to a Cpu record.  A Rust panic  *)
(* is kept in the record's field "panic": the process unwinds there and    *)
(* no further operation runs.  The host of src/src/app.rs (its key         *)
(* handler, its game state, its frame loop) is modelled around that Cpu.   *)
(***************************************************************************)
EXTENDS Integers, Sequences, FiniteSets, TLC

VARIABLES
    register_a,       \* Cpu.register_a : u8
    register_x,       \* Cpu.register_x : u8
    register_y,       \* Cpu.register_y : u8
    status,           \* Cpu.status : BitFlags<CpuFlags>, as its bits() byte
    program_counter,  \* Cpu.program_counter : u16
    stack_pointer,    \* Cpu.stack_pointer : u8
    memory,           \* Cpu.memory, kept sparse: address -> non-zero byte
    panic,            \* "" or the message of the panic that ended the process
    overflow_checks,  \* build profile: TRUE = arithmetic overflow panics (debug)
    result,           \* the RunResult of the last step: "None", "Running", "Done"
    in_run,           \* TRUE while the caller is inside the loop of run()
    game_state,       \* the host's GameState signal: "Paused" or "Running"
    game_loop,        \* the host's animation-frame loop is active (resumed)
    pre,              \* history: the Cpu as the last step's fetch saw it, and what it fetched
    hook_calls,       \* history: number of hook invocations so far
    steps             \* history: number of steps (run_cycle_with_callback calls) so far

vars == <<register_a, register_x, register_y, status, program_counter,
          stack_pointer, memory, panic, overflow_checks, result, in_run,
          game_state, game_loop, pre, hook_calls, steps>>

----------------------------------------------------------------------------
(* Integer widths *)

U8 == 0..255
U8_MAX == 255
U16_MOD == 2 ^ 16

wrap8(n) == n % 256
wrap16(n) == n % U16_MOD

Bit(v, i) == (v \div (2 ^ i)) % 2

RECURSIVE BitFold(_, _, _, _)
\* 0: AND, 1: OR, 2: XOR, bit by bit over the low 16 bits
BitFold(op, a, b, i) ==
    IF i = 16 THEN 0
    ELSE LET x == Bit(a, i)
             y == Bit(b, i)
             z == CASE op = 0 -> x * y
                    [] op = 1 -> IF x + y > 0 THEN 1 ELSE 0
                    [] OTHER  -> (x + y) % 2
         IN  z * (2 ^ i) + BitFold(op, a, b, i + 1)

\* The operands are evaluated before the fold
Bitwise == [op \in 0..2, a \in Nat, b \in Nat |-> BitFold(op, a, b, 0)]

BitAnd(a, b) == Bitwise[0, a, b]
BitOr(a, b)  == Bitwise[1, a, b]
BitXor(a, b) == Bitwise[2, a, b]

\* `x as i8` of a byte, as a signed integer
as_i8(b) == IF b >= 128 THEN b - 256 ELSE b
\* `x as u16` of an i8: sign extension
i8_as_u16(s) == IF s < 0 THEN s + U16_MOD ELSE s

----------------------------------------------------------------------------
(* flags.rs: CpuFlags, bit values *)

CarryBit          == 1
Zero              == 2
DisableInterrupts == 4
DecimalMode       == 8
Break             == 16
Unused            == 32
Overflow          == 64
Negative          == 128

contains(st, flag) == (st \div flag) % 2 = 1
insert(st, flag)   == IF contains(st, flag) THEN st ELSE st + flag
remove(st, flag)   == IF contains(st, flag) THEN st - flag ELSE st
set(st, flag, b)   == IF b THEN insert(st, flag) ELSE remove(st, flag)

----------------------------------------------------------------------------
(* mod.rs constants *)

RESET_ADDRESS      == 65532    \* 0xFFFC
GAME_START_ADDRESS == 1536     \* 0x0600
MEMORY_LEN         == 65535    \* [u8; u16::MAX as usize]
STACK              == 256      \* 0x0100

\* Panic messages
NO_PANIC        == ""
OUT_OF_BOUNDS   == "index out of bounds"
ADD_OVERFLOW    == "attempt to add with overflow"
ILLEGAL_OPCODE  == "Illegal opcode instruction provided"
NOT_IMPLEMENTED == "not yet implemented"
SLICE_RANGE     == "range end index out of range for slice"

\* Results of a read that may panic are integers: a value >= 0, or one of
\* these negative codes
ERR_BOUNDS   == -1
ERR_TODO     == -2
ERR_OVERFLOW == -3

PanicMessage(code) ==
    CASE code = ERR_TODO     -> NOT_IMPLEMENTED
      [] code = ERR_OVERFLOW -> ADD_OVERFLOW
      [] OTHER               -> OUT_OF_BOUNDS

----------------------------------------------------------------------------
(* The struct Cpu as a record, and its Default *)

Self ==
    [register_a |-> register_a, register_x |-> register_x,
     register_y |-> register_y, status |-> status,
     program_counter |-> program_counter, stack_pointer |-> stack_pointer,
     memory |-> memory, panic |-> panic]

EmptyMemory == [a \in {} |-> 0]

Default ==
    [register_a |-> 0, register_x |-> 0, register_y |-> 0, status |-> 0,
     program_counter |-> 0, stack_pointer |-> 0,
     memory |-> EmptyMemory, panic |-> NO_PANIC]

Panic(c, code) == [c EXCEPT !.panic = PanicMessage(code)]

\* Arithmetic on u16 with the `+` operator: panics when the build checks
\* overflow, wraps otherwise
add_u16(a, b) ==
    IF a + b >= U16_MOD
    THEN (IF overflow_checks THEN ERR_OVERFLOW ELSE wrap16(a + b))
    ELSE a + b

----------------------------------------------------------------------------
(* memory.rs: trait Memory, impl Memory for Cpu *)

\* The byte stored at addr (the array is zero-initialised)
byte_at(mem, addr) == IF addr \in DOMAIN mem THEN mem[addr] ELSE 0

\* memory[addr] = data on the sparse array
store(mem, addr, data) ==
    IF data = 0
    THEN [a \in DOMAIN mem \ {addr} |-> mem[a]]
    ELSE [a \in DOMAIN mem \cup {addr} |-> IF a = addr THEN data ELSE mem[a]]

\* self.memory[addr as usize]: panics when addr is not an index of the array
mem_read(c, addr) ==
    IF addr >= MEMORY_LEN THEN ERR_BOUNDS ELSE byte_at(c.memory, addr)

mem_write(c, addr, data) ==
    IF addr >= MEMORY_LEN THEN Panic(c, ERR_BOUNDS)
    ELSE [c EXCEPT !.memory = store(c.memory, addr, data)]

\* u16::from_le_bytes([mem_read(addr), mem_read(addr + 1)])
mem_read_u16(c, addr) ==
    LET lo == mem_read(c, addr) IN
    IF lo < 0 THEN lo
    ELSE LET next == add_u16(addr, 1) IN
         IF next < 0 THEN next
         ELSE LET hi == mem_read(c, next) IN
              IF hi < 0 THEN hi ELSE hi * 256 + lo

mem_write_u16(c, addr, data) ==
    LET c1 == mem_write(c, addr, data % 256) IN
    IF c1.panic # NO_PANIC THEN c1
    ELSE LET next == add_u16(addr, 1) IN
         IF next < 0 THEN Panic(c1, next)
         ELSE mem_write(c1, next, data \div 256)

\* Mutant of zero_page_u16: the high byte is read at ptr + 1 without the
\* wrap to the zero page
zero_page_u16_next_page(c, ptr) ==
    LET lo == mem_read(c, ptr)
        hi == mem_read(c, ptr + 1)
    IN  hi * 256 + lo

\* The value read through a one-byte pointer pair in zero page
zero_page_u16(c, ptr) ==
    LET lo == mem_read(c, ptr)
        hi == mem_read(c, wrap8(ptr + 1))
    IN  hi * 256 + lo

\* Mutant of get_operand_address: the zero-page index is added without
\* wrapping (`pos as u16 + register as u16`)
get_operand_address_unwrapped(c, mode) ==
    LET pc == c.program_counter IN
    CASE mode = "Immediate" -> pc
      [] mode = "ZeroPage"  -> mem_read(c, pc)
      [] mode = "Absolute"  -> mem_read_u16(c, pc)
      [] mode = "ZeroPageX" ->
            LET pos == mem_read(c, pc) IN
            IF pos < 0 THEN pos ELSE pos + c.register_x
      [] mode = "ZeroPageY" ->
            LET pos == mem_read(c, pc) IN
            IF pos < 0 THEN pos ELSE pos + c.register_y
      [] mode = "AbsoluteX" ->
            LET base == mem_read_u16(c, pc) IN
            IF base < 0 THEN base ELSE wrap16(base + c.register_x)
      [] mode = "AbsoluteY" ->
            LET base == mem_read_u16(c, pc) IN
            IF base < 0 THEN base ELSE wrap16(base + c.register_y)
      [] mode = "IndirectX" ->
            LET base == mem_read(c, pc) IN
            IF base < 0 THEN base
            ELSE zero_page_u16(c, wrap8(base + c.register_x))
      [] mode = "IndirectY" ->
            LET base == mem_read(c, pc) IN
            IF base < 0 THEN base
            ELSE wrap16(zero_page_u16(c, base) + c.register_y)
      [] OTHER -> ERR_TODO

get_operand_address(c, mode) ==
    LET pc == c.program_counter IN
    CASE mode = "Immediate" -> pc
      [] mode = "ZeroPage"  -> mem_read(c, pc)
      [] mode = "Absolute"  -> mem_read_u16(c, pc)
      [] mode = "ZeroPageX" ->
            LET pos == mem_read(c, pc) IN
            IF pos < 0 THEN pos ELSE wrap8(pos + c.register_x)
      [] mode = "ZeroPageY" ->
            LET pos == mem_read(c, pc) IN
            IF pos < 0 THEN pos ELSE wrap8(pos + c.register_y)
      [] mode = "AbsoluteX" ->
            LET base == mem_read_u16(c, pc) IN
            IF base < 0 THEN base ELSE wrap16(base + c.register_x)
      [] mode = "AbsoluteY" ->
            LET base == mem_read_u16(c, pc) IN
            IF base < 0 THEN base ELSE wrap16(base + c.register_y)
      [] mode = "IndirectX" ->
            LET base == mem_read(c, pc) IN
            IF base < 0 THEN base
            ELSE zero_page_u16(c, wrap8(base + c.register_x))
      [] mode = "IndirectY" ->
            LET base == mem_read(c, pc) IN
            IF base < 0 THEN base
            ELSE wrap16(zero_page_u16(c, base) + c.register_y)
      [] OTHER -> ERR_TODO     \* NoneAddressing => todo!()

\* let addr = get_operand_address(mode); mem_read(addr)
read_operand(c, mode) ==
    LET addr == get_operand_address(c, mode) IN
    IF addr < 0 THEN addr ELSE mem_read(c, addr)

----------------------------------------------------------------------------
(* stack.rs: impl Stack for Cpu *)

\* Mutant of stack_push: the pointer is decremented before the write
stack_push_decrement_first(c, data) ==
    [mem_write(c, STACK + wrap8(c.stack_pointer + 255), data)
        EXCEPT !.stack_pointer = wrap8(c.stack_pointer + 255)]

stack_push(c, data) ==
    [mem_write(c, STACK + c.stack_pointer, data)
        EXCEPT !.stack_pointer = wrap8(c.stack_pointer + 255)]

\* stack_pop changes the pointer and returns a byte: the Cpu after it, and
\* the byte it returns
after_pop(c) == [c EXCEPT !.stack_pointer = wrap8(c.stack_pointer + 1)]
popped(c)    == mem_read(c, STACK + wrap8(c.stack_pointer + 1))

stack_push_u16(c, data) ==
    LET hi == data \div 256
        lo == BitAnd(data, 255)
    IN  stack_push(stack_push(c, hi), lo)

after_pop_u16(c) == after_pop(after_pop(c))
\* Mutant of popped_u16: the high byte is read first
popped_u16_high_first(c) ==
    LET hi == popped(c)
        lo == popped(after_pop(c))
    IN  hi * 256 + lo

popped_u16(c) ==
    LET lo == popped(c)
        hi == popped(after_pop(c))
    IN  hi * 256 + lo

----------------------------------------------------------------------------
(* The opcode table of the emulator crate (cpu/opcode.rs): the official    *)
(* 6502 encodings, <<code, repr, len, mode>>.  Implied, accumulator and     *)
(* relative instructions and JMP/JSR carry NoneAddressing: their executors  *)
(* handle their own operand.                                                *)

OPCODES ==
    {
     <<\H69, "ADC", 2, "Immediate">>, <<\H65, "ADC", 2, "ZeroPage">>,
     <<\H75, "ADC", 2, "ZeroPageX">>, <<\H6D, "ADC", 3, "Absolute">>,
     <<\H7D, "ADC", 3, "AbsoluteX">>, <<\H79, "ADC", 3, "AbsoluteY">>,
     <<\H61, "ADC", 2, "IndirectX">>, <<\H71, "ADC", 2, "IndirectY">>,
     <<\H29, "AND", 2, "Immediate">>, <<\H25, "AND", 2, "ZeroPage">>,
     <<\H35, "AND", 2, "ZeroPageX">>, <<\H2D, "AND", 3, "Absolute">>,
     <<\H3D, "AND", 3, "AbsoluteX">>, <<\H39, "AND", 3, "AbsoluteY">>,
     <<\H21, "AND", 2, "IndirectX">>, <<\H31, "AND", 2, "IndirectY">>,
     <<\H0A, "ASL", 1, "NoneAddressing">>, <<\H06, "ASL", 2, "ZeroPage">>,
     <<\H16, "ASL", 2, "ZeroPageX">>, <<\H0E, "ASL", 3, "Absolute">>,
     <<\H1E, "ASL", 3, "AbsoluteX">>,
     <<\H90, "BCC", 2, "NoneAddressing">>,
     <<\HB0, "BCS", 2, "NoneAddressing">>,
     <<\HF0, "BEQ", 2, "NoneAddressing">>,
     <<\H24, "BIT", 2, "ZeroPage">>, <<\H2C, "BIT", 3, "Absolute">>,
     <<\H30, "BMI", 2, "NoneAddressing">>,
     <<\HD0, "BNE", 2, "NoneAddressing">>,
     <<\H10, "BPL", 2, "NoneAddressing">>,
     <<\H00, "BRK", 1, "NoneAddressing">>,
     <<\H50, "BVC", 2, "NoneAddressing">>,
     <<\H70, "BVS", 2, "NoneAddressing">>,
     <<\H18, "CLC", 1, "NoneAddressing">>,
     <<\HD8, "CLD", 1, "NoneAddressing">>,
     <<\H58, "CLI", 1, "NoneAddressing">>,
     <<\HB8, "CLV", 1, "NoneAddressing">>,
     <<\HC9, "CMP", 2, "Immediate">>, <<\HC5, "CMP", 2, "ZeroPage">>,
     <<\HD5, "CMP", 2, "ZeroPageX">>, <<\HCD, "CMP", 3, "Absolute">>,
     <<\HDD, "CMP", 3, "AbsoluteX">>, <<\HD9, "CMP", 3, "AbsoluteY">>,
     <<\HC1, "CMP", 2, "IndirectX">>, <<\HD1, "CMP", 2, "IndirectY">>,
     <<\HE0, "CPX", 2, "Immediate">>, <<\HE4, "CPX", 2, "ZeroPage">>,
     <<\HEC, "CPX", 3, "Absolute">>,
     <<\HC0, "CPY", 2, "Immediate">>, <<\HC4, "CPY", 2, "ZeroPage">>,
     <<\HCC, "CPY", 3, "Absolute">>,
     <<\HC6, "DEC", 2, "ZeroPage">>, <<\HD6, "DEC", 2, "ZeroPageX">>,
     <<\HCE, "DEC", 3, "Absolute">>, <<\HDE, "DEC", 3, "AbsoluteX">>,
     <<\HCA, "DEX", 1, "NoneAddressing">>,
     <<\H88, "DEY", 1, "NoneAddressing">>,
     <<\H49, "EOR", 2, "Immediate">>, <<\H45, "EOR", 2, "ZeroPage">>,
     <<\H55, "EOR", 2, "ZeroPageX">>, <<\H4D, "EOR", 3, "Absolute">>,
     <<\H5D, "EOR", 3, "AbsoluteX">>, <<\H59, "EOR", 3, "AbsoluteY">>,
     <<\H41, "EOR", 2, "IndirectX">>, <<\H51, "EOR", 2, "IndirectY">>,
     <<\HE6, "INC", 2, "ZeroPage">>, <<\HF6, "INC", 2, "ZeroPageX">>,
     <<\HEE, "INC", 3, "Absolute">>, <<\HFE, "INC", 3, "AbsoluteX">>,
     <<\HE8, "INX", 1, "NoneAddressing">>,
     <<\HC8, "INY", 1, "NoneAddressing">>,
     <<\H4C, "JMP", 3, "NoneAddressing">>, <<\H6C, "JMP", 3, "NoneAddressing">>,
     <<\H20, "JSR", 3, "NoneAddressing">>,
     <<\HA9, "LDA", 2, "Immediate">>, <<\HA5, "LDA", 2, "ZeroPage">>,
     <<\HB5, "LDA", 2, "ZeroPageX">>, <<\HAD, "LDA", 3, "Absolute">>,
     <<\HBD, "LDA", 3, "AbsoluteX">>, <<\HB9, "LDA", 3, "AbsoluteY">>,
     <<\HA1, "LDA", 2, "IndirectX">>, <<\HB1, "LDA", 2, "IndirectY">>,
     <<\HA2, "LDX", 2, "Immediate">>, <<\HA6, "LDX", 2, "ZeroPage">>,
     <<\HB6, "LDX", 2, "ZeroPageY">>, <<\HAE, "LDX", 3, "Absolute">>,
     <<\HBE, "LDX", 3, "AbsoluteY">>,
     <<\HA0, "LDY", 2, "Immediate">>, <<\HA4, "LDY", 2, "ZeroPage">>,
     <<\HB4, "LDY", 2, "ZeroPageX">>, <<\HAC, "LDY", 3, "Absolute">>,
     <<\HBC, "LDY", 3, "AbsoluteX">>,
     <<\H4A, "LSR", 1, "NoneAddressing">>, <<\H46, "LSR", 2, "ZeroPage">>,
     <<\H56, "LSR", 2, "ZeroPageX">>, <<\H4E, "LSR", 3, "Absolute">>,
     <<\H5E, "LSR", 3, "AbsoluteX">>,
     <<\HEA, "NOP", 1, "NoneAddressing">>,
     <<\H09, "ORA", 2, "Immediate">>, <<\H05, "ORA", 2, "ZeroPage">>,
     <<\H15, "ORA", 2, "ZeroPageX">>, <<\H0D, "ORA", 3, "Absolute">>,
     <<\H1D, "ORA", 3, "AbsoluteX">>, <<\H19, "ORA", 3, "AbsoluteY">>,
     <<\H01, "ORA", 2, "IndirectX">>, <<\H11, "ORA", 2, "IndirectY">>,
     <<\H48, "PHA", 1, "NoneAddressing">>,
     <<\H08, "PHP", 1, "NoneAddressing">>,
     <<\H68, "PLA", 1, "NoneAddressing">>,
     <<\H28, "PLP", 1, "NoneAddressing">>,
     <<\H2A, "ROL", 1, "NoneAddressing">>, <<\H26, "ROL", 2, "ZeroPage">>,
     <<\H36, "ROL", 2, "ZeroPageX">>, <<\H2E, "ROL", 3, "Absolute">>,
     <<\H3E, "ROL", 3, "AbsoluteX">>,
     <<\H6A, "ROR", 1, "NoneAddressing">>, <<\H66, "ROR", 2, "ZeroPage">>,
     <<\H76, "ROR", 2, "ZeroPageX">>, <<\H6E, "ROR", 3, "Absolute">>,
     <<\H7E, "ROR", 3, "AbsoluteX">>,
     <<\H40, "RTI", 1, "NoneAddressing">>,
     <<\H60, "RTS", 1, "NoneAddressing">>,
     <<\HE9, "SBC", 2, "Immediate">>, <<\HE5, "SBC", 2, "ZeroPage">>,
     <<\HF5, "SBC", 2, "ZeroPageX">>, <<\HED, "SBC", 3, "Absolute">>,
     <<\HFD, "SBC", 3, "AbsoluteX">>, <<\HF9, "SBC", 3, "AbsoluteY">>,
     <<\HE1, "SBC", 2, "IndirectX">>, <<\HF1, "SBC", 2, "IndirectY">>,
     <<\H38, "SEC", 1, "NoneAddressing">>,
     <<\HF8, "SED", 1, "NoneAddressing">>,
     <<\H78, "SEI", 1, "NoneAddressing">>,
     <<\H85, "STA", 2, "ZeroPage">>, <<\H95, "STA", 2, "ZeroPageX">>,
     <<\H8D, "STA", 3, "Absolute">>, <<\H9D, "STA", 3, "AbsoluteX">>,
     <<\H99, "STA", 3, "AbsoluteY">>, <<\H81, "STA", 2, "IndirectX">>,
     <<\H91, "STA", 2, "IndirectY">>,
     <<\H86, "STX", 2, "ZeroPage">>, <<\H96, "STX", 2, "ZeroPageY">>,
     <<\H8E, "STX", 3, "Absolute">>,
     <<\H84, "STY", 2, "ZeroPage">>, <<\H94, "STY", 2, "ZeroPageX">>,
     <<\H8C, "STY", 3, "Absolute">>,
     <<\HAA, "TAX", 1, "NoneAddressing">>,
     <<\HA8, "TAY", 1, "NoneAddressing">>,
     <<\HBA, "TSX", 1, "NoneAddressing">>,
     <<\H8A, "TXA", 1, "NoneAddressing">>,
     <<\H9A, "TXS", 1, "NoneAddressing">>,
     <<\H98, "TYA", 1, "NoneAddressing">>
    }

OPCODES_MAP ==
    [code \in {o[1] : o \in OPCODES} |->
        LET o == CHOOSE e \in OPCODES : e[1] = code
        IN  [code |-> o[1], repr |-> o[2], len |-> o[3], mode |-> o[4]]]

----------------------------------------------------------------------------
(* mod.rs: flag helpers and the arithmetic core *)

\* Mutant of update_zero_and_negative_flags: DecimalMode is cleared with it
update_zero_and_negative_flags_clears_decimal(c, res) ==
    [c EXCEPT !.status =
        remove(set(set(c.status, Zero, res = 0), Negative, BitAnd(res, Negative) # 0),
               DecimalMode)]

update_zero_and_negative_flags(c, res) ==
    [c EXCEPT !.status =
        set(set(c.status, Zero, res = 0), Negative, BitAnd(res, Negative) # 0)]

set_register_a(c, value) ==
    update_zero_and_negative_flags([c EXCEPT !.register_a = value], value)

\* Mutant of add_to_register_a: Overflow is computed after A was assigned
add_to_register_a_overflow_late(c, value) ==
    LET sum    == c.register_a + value
                  + (IF contains(c.status, CarryBit) THEN 1 ELSE 0)
        carry  == set(c.status, CarryBit, sum > U8_MAX)
        res    == sum % 256
        signed == BitAnd(BitAnd(BitXor(value, res), BitXor(res, res)), 128) # 0
    IN  set_register_a([c EXCEPT !.status = set(carry, Overflow, signed)], res)

add_to_register_a(c, value) ==
    LET sum    == c.register_a + value
                  + (IF contains(c.status, CarryBit) THEN 1 ELSE 0)
        carry  == set(c.status, CarryBit, sum > U8_MAX)
        res    == sum % 256        \* sum as u8
        signed == BitAnd(BitAnd(BitXor(value, res), BitXor(res, c.register_a)), 128) # 0
    IN  set_register_a([c EXCEPT !.status = set(carry, Overflow, signed)], res)

\* (data as i8).wrapping_neg().wrapping_sub(1) as u8
wrapping_neg_i8(s) == IF s = -128 THEN -128 ELSE 0 - s
wrapping_sub_i8(s, n) == IF s - n < -128 THEN s - n + 256 ELSE s - n
i8_as_u8(s) == IF s < 0 THEN s + 256 ELSE s
\* Mutant of sbc_operand: the two's complement, without the `- 1`
sbc_operand_negated(data) == i8_as_u8(wrapping_neg_i8(as_i8(data)))
sbc_operand(data) == i8_as_u8(wrapping_sub_i8(wrapping_neg_i8(as_i8(data)), 1))

----------------------------------------------------------------------------
(* mod.rs: the executors *)

adc(c, mode) ==
    LET value == read_operand(c, mode) IN
    IF value < 0 THEN Panic(c, value) ELSE add_to_register_a(c, value)

sbc(c, mode) ==
    LET data == read_operand(c, mode) IN
    IF data < 0 THEN Panic(c, data) ELSE add_to_register_a(c, sbc_operand(data))

and(c, mode) ==
    LET data == read_operand(c, mode) IN
    IF data < 0 THEN Panic(c, data)
    ELSE set_register_a(c, BitAnd(data, c.register_a))

eor(c, mode) ==
    LET data == read_operand(c, mode) IN
    IF data < 0 THEN Panic(c, data)
    ELSE set_register_a(c, BitXor(data, c.register_a))

ora(c, mode) ==
    LET data == read_operand(c, mode) IN
    IF data < 0 THEN Panic(c, data)
    ELSE set_register_a(c, BitOr(data, c.register_a))

asl(c, mode) ==
    LET addr == get_operand_address(c, mode)
        data == IF addr < 0 THEN addr ELSE mem_read(c, addr)
    IN  IF data < 0 THEN Panic(c, data)
        ELSE LET c1  == [c EXCEPT !.status = set(c.status, CarryBit, data \div 128 = 1)]
                 res == (data * 2) % 256
             IN  update_zero_and_negative_flags(mem_write(c1, addr, res), res)

lsr(c, mode) ==
    LET addr == get_operand_address(c, mode)
        data == IF addr < 0 THEN addr ELSE mem_read(c, addr)
    IN  IF data < 0 THEN Panic(c, data)
        ELSE LET c1  == [c EXCEPT !.status = set(c.status, CarryBit, BitAnd(data, 1) = 1)]
                 res == data \div 2
             IN  update_zero_and_negative_flags(mem_write(c1, addr, res), res)

rol(c, mode) ==
    LET addr == get_operand_address(c, mode)
        data == IF addr < 0 THEN addr ELSE mem_read(c, addr)
    IN  IF data < 0 THEN Panic(c, data)
        ELSE LET old_carry == contains(c.status, CarryBit)
                 c1  == [c EXCEPT !.status = set(c.status, CarryBit, data \div 128 = 1)]
                 shifted == (data * 2) % 256
                 res == IF old_carry THEN BitOr(shifted, 1) ELSE shifted
             IN  update_zero_and_negative_flags(mem_write(c1, addr, res), res)

ror(c, mode) ==
    LET addr == get_operand_address(c, mode)
        data == IF addr < 0 THEN addr ELSE mem_read(c, addr)
    IN  IF data < 0 THEN Panic(c, data)
        ELSE LET old_carry == contains(c.status, CarryBit)
                 c1  == [c EXCEPT !.status = set(c.status, CarryBit, BitAnd(data, 1) = 1)]
                 shifted == data \div 2
                 res == IF old_carry THEN BitOr(shifted, Negative) ELSE shifted
             IN  update_zero_and_negative_flags(mem_write(c1, addr, res), res)

lsr_accumulator(c) ==
    LET data == c.register_a IN
    set_register_a([c EXCEPT !.status = set(c.status, CarryBit, BitAnd(data, 1) = 1)],
                   data \div 2)

rol_accumulator(c) ==
    LET data == c.register_a
        old_carry == contains(c.status, CarryBit)
        shifted == (data * 2) % 256
    IN  set_register_a([c EXCEPT !.status = set(c.status, CarryBit, data \div 128 = 1)],
                       IF old_carry THEN BitOr(shifted, 1) ELSE shifted)

ror_accumulator(c) ==
    LET data == c.register_a
        old_carry == contains(c.status, CarryBit)
        shifted == data \div 2
    IN  set_register_a([c EXCEPT !.status = set(c.status, CarryBit, BitAnd(data, 1) = 1)],
                       IF old_carry THEN BitOr(shifted, Negative) ELSE shifted)

branch(c, condition) ==
    IF ~condition THEN c
    ELSE LET jump == mem_read(c, c.program_counter) IN
         IF jump < 0 THEN Panic(c, jump)
         ELSE [c EXCEPT !.program_counter =
                  wrap16(wrap16(c.program_counter + 1) + i8_as_u16(as_i8(jump)))]

bit(c, mode) ==
    LET data == read_operand(c, mode) IN
    IF data < 0 THEN Panic(c, data)
    ELSE [c EXCEPT !.status =
            set(set(set(c.status, Zero, BitAnd(c.register_a, data) = 0),
                    Negative, BitAnd(data, Negative) > 0),
                Overflow, BitAnd(data, Overflow) > 0)]

\* Mutant of compare: Carry from a strict comparison
compare_strict(c, mode, compare_with) ==
    LET data == read_operand(c, mode) IN
    IF data < 0 THEN Panic(c, data)
    ELSE update_zero_and_negative_flags(
            [c EXCEPT !.status = set(c.status, CarryBit, data < compare_with)],
            wrap8(compare_with + 256 - data))

compare(c, mode, compare_with) ==
    LET data == read_operand(c, mode) IN
    IF data < 0 THEN Panic(c, data)
    ELSE update_zero_and_negative_flags(
            [c EXCEPT !.status = set(c.status, CarryBit, data <= compare_with)],
            wrap8(compare_with + 256 - data))

dec(c) == update_zero_and_negative_flags(
            [c EXCEPT !.register_a = wrap8(c.register_a + 255)], wrap8(c.register_a + 255))
dex(c) == update_zero_and_negative_flags(
            [c EXCEPT !.register_x = wrap8(c.register_x + 255)], wrap8(c.register_x + 255))
dey(c) == update_zero_and_negative_flags(
            [c EXCEPT !.register_y = wrap8(c.register_y + 255)], wrap8(c.register_y + 255))
inc(c) == update_zero_and_negative_flags(
            [c EXCEPT !.register_a = wrap8(c.register_a + 1)], wrap8(c.register_a + 1))
\* Mutant of inx: `+ 1` in place of wrapping_add(1)
inx_checked_add(c) ==
    IF c.register_x = U8_MAX
    THEN IF overflow_checks THEN Panic(c, ERR_OVERFLOW)
         ELSE update_zero_and_negative_flags([c EXCEPT !.register_x = 0], 0)
    ELSE update_zero_and_negative_flags(
            [c EXCEPT !.register_x = c.register_x + 1], c.register_x + 1)

inx(c) == update_zero_and_negative_flags(
            [c EXCEPT !.register_x = wrap8(c.register_x + 1)], wrap8(c.register_x + 1))
iny(c) == update_zero_and_negative_flags(
            [c EXCEPT !.register_y = wrap8(c.register_y + 1)], wrap8(c.register_y + 1))

\* Mutant of lda: the flags are taken from the accumulator before the load
lda_flags_before_load(c, mode) ==
    LET value == read_operand(c, mode) IN
    IF value < 0 THEN Panic(c, value)
    ELSE [update_zero_and_negative_flags(c, c.register_a) EXCEPT !.register_a = value]

lda(c, mode) ==
    LET value == read_operand(c, mode) IN
    IF value < 0 THEN Panic(c, value) ELSE set_register_a(c, value)

ldx(c, mode) ==
    LET value == read_operand(c, mode) IN
    IF value < 0 THEN Panic(c, value)
    ELSE update_zero_and_negative_flags([c EXCEPT !.register_x = value], value)

\* as written: the byte goes to register_x, the flags follow register_y
ldy(c, mode) ==
    LET value == read_operand(c, mode) IN
    IF value < 0 THEN Panic(c, value)
    ELSE update_zero_and_negative_flags([c EXCEPT !.register_x = value], c.register_y)

\* Mutant of php: Break and Unused are inserted into the live status (no clone)
php_sets_live_flags(c) ==
    LET c1 == [c EXCEPT !.status = insert(insert(c.status, Break), Unused)]
    IN  stack_push(c1, c1.status)

php(c) == stack_push(c, insert(insert(c.status, Break), Unused))

pla(c) == set_register_a(after_pop(c), popped(c))

\* BitFlags::from_bits accepts every byte: all eight bits are flags
pop_status_from_stack(c) == [after_pop(c) EXCEPT !.status = popped(c)]

plp(c) ==
    LET c1 == pop_status_from_stack(c) IN
    [c1 EXCEPT !.status = insert(remove(c1.status, Break), Unused)]

\* Mutant of rti: the return address is popped high byte first
rti_pops_high_first(c) ==
    LET c1 == pop_status_from_stack(c)
        c2 == [c1 EXCEPT !.status = insert(remove(c1.status, Break), Unused)]
    IN  [after_pop_u16(c2) EXCEPT
            !.program_counter = popped(c2) * 256 + popped(after_pop(c2))]

rti(c) ==
    LET c1 == pop_status_from_stack(c)
        c2 == [c1 EXCEPT !.status = insert(remove(c1.status, Break), Unused)]
    IN  [after_pop_u16(c2) EXCEPT !.program_counter = popped_u16(c2)]

sta(c, mode) ==
    LET addr == get_operand_address(c, mode) IN
    IF addr < 0 THEN Panic(c, addr) ELSE mem_write(c, addr, c.register_a)

stx(c, mode) ==
    LET addr == get_operand_address(c, mode) IN
    IF addr < 0 THEN Panic(c, addr) ELSE mem_write(c, addr, c.register_x)

sty(c, mode) ==
    LET addr == get_operand_address(c, mode) IN
    IF addr < 0 THEN Panic(c, addr) ELSE mem_write(c, addr, c.register_y)

tax(c) == update_zero_and_negative_flags(
            [c EXCEPT !.register_x = c.register_a], c.register_a)
tay(c) == update_zero_and_negative_flags(
            [c EXCEPT !.register_y = c.register_a], c.register_a)
tsx(c) == update_zero_and_negative_flags(
            [c EXCEPT !.register_x = c.stack_pointer], c.stack_pointer)
txa(c) == update_zero_and_negative_flags(
            [c EXCEPT !.register_a = c.register_x], c.register_x)

\* Mutant of txs: the flags are updated as in the other transfers
txs_updates_flags(c) == update_zero_and_negative_flags(
            [c EXCEPT !.stack_pointer = c.register_x], c.register_x)

txs(c) == [c EXCEPT !.stack_pointer = c.register_x]

tya(c) == update_zero_and_negative_flags(
            [c EXCEPT !.register_a = c.register_y], c.register_y)

jmp(c, code) ==
    LET mem_address == mem_read_u16(c, c.program_counter) IN
    IF mem_address < 0 THEN Panic(c, mem_address)
    ELSE IF code = 108       \* 0x6c
    THEN LET indirect_ref ==
                 IF BitAnd(mem_address, 255) = 255
                 THEN LET lo == mem_read(c, mem_address)
                          hi == IF lo < 0 THEN lo
                                ELSE mem_read(c, BitAnd(mem_address, 65280))
                      IN  IF hi < 0 THEN hi ELSE BitOr(hi * 256, lo)
                 ELSE mem_read_u16(c, mem_address)
         IN  IF indirect_ref < 0 THEN Panic(c, indirect_ref)
             ELSE [c EXCEPT !.program_counter = indirect_ref]
    ELSE [c EXCEPT !.program_counter = mem_address]

jsr(c) ==
    LET plus2 == add_u16(c.program_counter, 2) IN
    IF plus2 < 0 THEN Panic(c, plus2)
    ELSE LET c1 == stack_push_u16(c, wrap16(plus2 + U16_MOD - 1))
             target == mem_read_u16(c1, c1.program_counter)
         IN  IF target < 0 THEN Panic(c1, target)
             ELSE [c1 EXCEPT !.program_counter = target]

\* Mutant of rts: the popped address is used as it is (no `+ 1`)
rts_without_increment(c) ==
    LET ret == popped_u16(c) IN
    IF ret < 0 THEN Panic(after_pop_u16(c), ret)
    ELSE [after_pop_u16(c) EXCEPT !.program_counter = ret]

rts(c) ==
    LET ret == add_u16(popped_u16(c), 1) IN
    IF ret < 0 THEN Panic(after_pop_u16(c), ret)
    ELSE [after_pop_u16(c) EXCEPT !.program_counter = ret]

\* match opcode.repr { ... } of run_cycle_with_callback, BRK excepted
execute(c, opcode) ==
    LET repr == opcode.repr
        mode == opcode.mode
    IN  CASE repr = "ADC" -> adc(c, mode)
          [] repr = "AND" -> and(c, mode)
          [] repr = "ASL" -> asl(c, mode)
          [] repr = "BCC" -> branch(c, ~contains(c.status, CarryBit))
          [] repr = "BCS" -> branch(c, contains(c.status, CarryBit))
          [] repr = "BEQ" -> branch(c, contains(c.status, Zero))
          [] repr = "BIT" -> bit(c, mode)
          [] repr = "BMI" -> branch(c, contains(c.status, Negative))
          [] repr = "BNE" -> branch(c, ~contains(c.status, Zero))
          [] repr = "BPL" -> branch(c, ~contains(c.status, Negative))
          [] repr = "BVC" -> branch(c, ~contains(c.status, Overflow))
          [] repr = "BVS" -> branch(c, contains(c.status, Overflow))
          [] repr = "CLC" -> [c EXCEPT !.status = remove(c.status, CarryBit)]
          [] repr = "CLD" -> [c EXCEPT !.status = remove(c.status, DecimalMode)]
          [] repr = "CLI" -> [c EXCEPT !.status = remove(c.status, DisableInterrupts)]
          [] repr = "CLV" -> [c EXCEPT !.status = remove(c.status, Overflow)]
          [] repr = "CMP" -> compare(c, mode, c.register_a)
          [] repr = "CPX" -> compare(c, mode, c.register_x)
          [] repr = "CPY" -> compare(c, mode, c.register_y)
          [] repr = "DEC" -> dec(c)
          [] repr = "DEX" -> dex(c)
          [] repr = "DEY" -> dey(c)
          [] repr = "EOR" -> eor(c, mode)
          [] repr = "INC" -> inc(c)
          [] repr = "INX" -> inx(c)
          [] repr = "INY" -> iny(c)
          [] repr = "JMP" -> jmp(c, opcode.code)
          [] repr = "JSR" -> jsr(c)
          [] repr = "LDA" -> lda(c, mode)
          [] repr = "LDX" -> ldx(c, mode)
          [] repr = "LDY" -> ldy(c, mode)
          [] repr = "LSR" -> IF opcode.code = 74 THEN lsr_accumulator(c) ELSE lsr(c, mode)
          [] repr = "NOP" -> c
          [] repr = "ORA" -> ora(c, mode)
          [] repr = "PHA" -> stack_push(c, c.register_a)
          [] repr = "PHP" -> php(c)
          [] repr = "PLA" -> pla(c)
          [] repr = "PLP" -> plp(c)
          [] repr = "ROL" -> IF opcode.code = 42 THEN rol_accumulator(c) ELSE rol(c, mode)
          [] repr = "ROR" -> IF opcode.code = 106 THEN ror_accumulator(c) ELSE ror(c, mode)
          [] repr = "RTI" -> rti(c)
          [] repr = "RTS" -> rts(c)
          [] repr = "SBC" -> sbc(c, mode)
          [] repr = "SEC" -> [c EXCEPT !.status = insert(c.status, CarryBit)]
          [] repr = "SED" -> [c EXCEPT !.status = insert(c.status, DecimalMode)]
          [] repr = "SEI" -> [c EXCEPT !.status = insert(c.status, DisableInterrupts)]
          [] repr = "STA" -> sta(c, mode)
          [] repr = "STX" -> stx(c, mode)
          [] repr = "STY" -> sty(c, mode)
          [] repr = "TAX" -> tax(c)
          [] repr = "TAY" -> tay(c)
          [] repr = "TSX" -> tsx(c)
          [] repr = "TXA" -> txa(c)
          [] repr = "TXS" -> txs(c)
          [] repr = "TYA" -> tya(c)

----------------------------------------------------------------------------
(* mod.rs: run_cycle_with_callback, reset, load *)

\* The hooks a caller passes: closures over &mut Cpu
NoHook == [kind |-> "none", addr |-> 0, data |-> 0]

callback(c, hook) ==
    CASE hook.kind = "mem_write"  -> mem_write(c, hook.addr, hook.data)
      [] hook.kind = "register_a" -> [c EXCEPT !.register_a = hook.data]
      [] OTHER -> c

\* Mutant of advance: the counter moves by len, not len - 1
advance_full_length(c, len) ==
    IF c.panic # NO_PANIC THEN [cpu |-> c, result |-> "Panic"]
    ELSE IF add_u16(c.program_counter, len) < 0
    THEN [cpu |-> Panic(c, ERR_OVERFLOW), result |-> "Panic"]
    ELSE [cpu |-> [c EXCEPT !.program_counter = add_u16(c.program_counter, len)],
          result |-> "Running"]

\* self.program_counter += opcode.len as u16 - 1; RunResult::Running
\* (c is the Cpu as the executor left it)
advance(c, len) ==
    IF c.panic # NO_PANIC THEN [cpu |-> c, result |-> "Panic"]
    ELSE IF add_u16(c.program_counter, len - 1) < 0
    THEN [cpu |-> Panic(c, ERR_OVERFLOW), result |-> "Panic"]
    ELSE [cpu |-> [c EXCEPT !.program_counter = add_u16(c.program_counter, len - 1)],
          result |-> "Running"]

\* Mutant of dispatch: BRK returns Done with the counter back on the BRK
dispatch_brk_rewinds(c, code) ==
    IF code \notin DOMAIN OPCODES_MAP
    THEN [cpu |-> [c EXCEPT !.panic = ILLEGAL_OPCODE], result |-> "Panic"]
    ELSE IF OPCODES_MAP[code].repr = "BRK"
    THEN [cpu |-> [c EXCEPT !.program_counter = wrap16(c.program_counter + U16_MOD - 1)],
          result |-> "Done"]
    ELSE advance(execute(c, OPCODES_MAP[code]), OPCODES_MAP[code].len)

\* Mutant of dispatch: BRK falls through like NOP and reports Running
dispatch_brk_runs(c, code) ==
    IF code \notin DOMAIN OPCODES_MAP
    THEN [cpu |-> [c EXCEPT !.panic = ILLEGAL_OPCODE], result |-> "Panic"]
    ELSE IF OPCODES_MAP[code].repr = "BRK" THEN advance(c, 1)
    ELSE advance(execute(c, OPCODES_MAP[code]), OPCODES_MAP[code].len)

\* Mutant of dispatch: a byte without a table entry is skipped like NOP
dispatch_skips_unknown(c, code) ==
    IF code \notin DOMAIN OPCODES_MAP THEN advance(c, 1)
    ELSE IF OPCODES_MAP[code].repr = "BRK" THEN [cpu |-> c, result |-> "Done"]
    ELSE advance(execute(c, OPCODES_MAP[code]), OPCODES_MAP[code].len)

\* The table lookup and the match on opcode.repr (c has the counter
\* already past the opcode byte)
dispatch(c, code) ==
    IF code \notin DOMAIN OPCODES_MAP
    THEN [cpu |-> [c EXCEPT !.panic = ILLEGAL_OPCODE], result |-> "Panic"]
    ELSE IF OPCODES_MAP[code].repr = "BRK" THEN [cpu |-> c, result |-> "Done"]
    ELSE advance(execute(c, OPCODES_MAP[code]), OPCODES_MAP[code].len)

\* What follows the hook: fetch, advance by one, dispatch.  Gives the Cpu
\* after the step and what the step returned ("Panic" when it did not return).
fetch_execute(c) ==
    IF mem_read(c, c.program_counter) < 0
    THEN [cpu |-> Panic(c, ERR_BOUNDS), result |-> "Panic"]
    ELSE dispatch([c EXCEPT !.program_counter = add_u16(c.program_counter, 1)],
                  mem_read(c, c.program_counter))

\* Mutant of run_cycle_with_callback: the opcode byte is fetched before the
\* hook runs
run_cycle_fetch_before_hook(c, hook) ==
    IF mem_read(c, c.program_counter) < 0
    THEN [cpu |-> Panic(c, ERR_BOUNDS), result |-> "Panic"]
    ELSE dispatch([callback(c, hook) EXCEPT
                      !.program_counter = add_u16(c.program_counter, 1)],
                  mem_read(c, c.program_counter))

run_cycle_with_callback(c, hook) == fetch_execute(callback(c, hook))

\* The byte the step fetches (history)
fetched(c, hook) == mem_read(callback(c, hook), callback(c, hook).program_counter)

\* Mutant of reset: register X is left as it is
reset_keeps_x(c) ==
    LET vector == mem_read_u16(c, RESET_ADDRESS)
        c1 == [c EXCEPT !.register_a = 0, !.status = 0]
    IN  [c1 EXCEPT !.program_counter = vector]

reset(c) ==
    LET vector == mem_read_u16(c, RESET_ADDRESS)
        c1 == [c EXCEPT !.register_a = 0, !.register_x = 0, !.status = 0]
    IN  [c1 EXCEPT !.program_counter = vector]

\* A program image (Vec<u8>), kept sparse like the memory: its length and
\* its non-zero bytes by index from 0
Image(bytes) ==
    [len |-> Len(bytes),
     data |-> [i \in {j - 1 : j \in {k \in 1..Len(bytes) : bytes[k] # 0}} |-> bytes[i + 1]]]

image_byte(program, i) == byte_at(program.data, i)

\* memory[start .. start + len].copy_from_slice(&program)
copy_from_slice(mem, start, program) ==
    LET kept == {a \in DOMAIN mem : a < start \/ a >= start + program.len}
        new  == {start + i : i \in DOMAIN program.data}
    IN  [a \in kept \cup new |->
            IF a \in new THEN program.data[a - start] ELSE mem[a]]

\* Mutant of load: the origin written high byte first
load_big_endian(c, program) ==
    IF GAME_START_ADDRESS + program.len > MEMORY_LEN
    THEN [c EXCEPT !.panic = SLICE_RANGE]
    ELSE mem_write(mem_write(
            [c EXCEPT !.memory = copy_from_slice(c.memory, GAME_START_ADDRESS, program)],
            RESET_ADDRESS, GAME_START_ADDRESS \div 256),
            RESET_ADDRESS + 1, GAME_START_ADDRESS % 256)

load(c, program) ==
    IF GAME_START_ADDRESS + program.len > MEMORY_LEN
    THEN [c EXCEPT !.panic = SLICE_RANGE]
    ELSE mem_write_u16(
            [c EXCEPT !.memory = copy_from_slice(c.memory, GAME_START_ADDRESS, program)],
            RESET_ADDRESS, GAME_START_ADDRESS)

----------------------------------------------------------------------------
(* Bounds and input sets *)

MaxSteps == 4          \* steps taken in one behaviour
BigImageLen == 63998   \* an image reaching over the reset vector (0x0600 + len > 0xFFFD)

\* The program images of the crate's tests, one with an illegal opcode, and
\* a zero-filled image of BigImageLen bytes
Programs ==
    { Image(<<169, 5, 0>>),            \* LDA #$05; BRK
      Image(<<169, 0, 0>>),            \* LDA #$00; BRK
      Image(<<165, 16, 0>>),           \* LDA $10; BRK
      Image(<<170, 0>>),               \* TAX; BRK
      Image(<<169, 192, 170, 232, 0>>),\* LDA #$C0; TAX; INX; BRK
      Image(<<232, 232, 0>>),          \* INX; INX; BRK
      Image(<<234, 2>>),               \* NOP; (illegal)
      [len |-> BigImageLen, data |-> EmptyMemory] }

\* Values the tests store into the public fields before run()
PokeValues == {10, 255}

\* Bytes a hook writes under the program counter: BRK, NOP, INX, TAX, an illegal byte
HookBytes == {0, 234, 232, 170, 255}

----------------------------------------------------------------------------
(* The state machine *)

Assign(c) ==
    \E cpu \in {c} :    \* the value of c, computed once
        /\ register_a' = cpu.register_a
        /\ register_x' = cpu.register_x
        /\ register_y' = cpu.register_y
        /\ status' = cpu.status
        /\ program_counter' = cpu.program_counter
        /\ stack_pointer' = cpu.stack_pointer
        /\ memory' = cpu.memory
        /\ panic' = cpu.panic

\* History of the last operation: its name, the Cpu before it, and for a
\* step the Cpu after the hook, the byte fetched, the hook, whether the
\* step came from run(); for a load the image
NoImage == [len |-> 0, data |-> EmptyMemory]

\* The last JSR a step fetched: where, and the stack pointer before it
NoCall == [at |-> -1, sp |-> -1]

History(op, before, cpu, opcode, hook, program) ==
    [op |-> op, before |-> before, cpu |-> cpu, opcode |-> opcode,
     hook |-> hook, program |-> program, in_run |-> in_run,
     call |-> IF op = "step" /\ opcode = 32     \* 0x20
              THEN [at |-> cpu.program_counter, sp |-> cpu.stack_pointer]
              ELSE pre.call]

NoStep == [op |-> "none", before |-> Default, cpu |-> Default, opcode |-> -1,
           hook |-> NoHook, program |-> NoImage, in_run |-> FALSE,
           call |-> NoCall]

\* A behaviour that starts with the Cpu c, no step taken yet
StartIn(c, checks) ==
    \E cpu \in {c} :    \* the value of c, computed once
        /\ register_a = cpu.register_a
        /\ register_x = cpu.register_x
        /\ register_y = cpu.register_y
        /\ status = cpu.status
        /\ program_counter = cpu.program_counter
        /\ stack_pointer = cpu.stack_pointer
        /\ memory = cpu.memory
        /\ panic = cpu.panic
        /\ overflow_checks = checks
        /\ result = "None"
        /\ in_run = FALSE
        /\ game_state = "Paused"
        /\ game_loop = FALSE
        /\ pre = NoStep
        /\ hook_calls = 0
        /\ steps = 0

\* ... in either build profile
StartFrom(c) == \E checks \in BOOLEAN : StartIn(c, checks)

\* The state after Cpu::default(), in either build profile
Init == StartFrom(Default)

Alive == panic = NO_PANIC

\* cpu.load(program)
Load(program) ==
    /\ Alive /\ ~in_run /\ steps = 0
    /\ Assign(load(Self, program))
    /\ pre' = History("load", Self, Self, -1, NoHook, program)
    /\ UNCHANGED <<game_state, game_loop, overflow_checks, result, in_run, hook_calls, steps>>

\* cpu.reset()
Reset ==
    /\ Alive /\ ~in_run
    /\ Assign(reset(Self))
    /\ pre' = History("reset", Self, Self, -1, NoHook, NoImage)
    /\ UNCHANGED <<game_state, game_loop, overflow_checks, result, in_run, hook_calls, steps>>

\* cpu.register_a = v / cpu.register_x = v (public fields)
SetRegisterA(v) ==
    /\ Alive /\ ~in_run /\ steps = 0
    /\ register_a' = v
    /\ pre' = History("set", Self, Self, -1, NoHook, NoImage)
    /\ UNCHANGED <<register_x, register_y, status, program_counter, stack_pointer,
                   memory, panic, overflow_checks, game_state, game_loop, result,
                   in_run, hook_calls, steps>>

SetRegisterX(v) ==
    /\ Alive /\ ~in_run /\ steps = 0
    /\ register_x' = v
    /\ pre' = History("set", Self, Self, -1, NoHook, NoImage)
    /\ UNCHANGED <<register_a, register_y, status, program_counter, stack_pointer,
                   memory, panic, overflow_checks, game_state, game_loop, result,
                   in_run, hook_calls, steps>>

\* The effect of one call of run_cycle_with_callback(hook) that gave r;
\* result keeps the RunResult it returned, "None" when it panicked
Stepped(r, hook) ==
    \E ret \in {r} :    \* the value of r, computed once
        /\ Assign(ret.cpu)
        /\ result' = IF ret.result = "Panic" THEN "None" ELSE ret.result
        /\ in_run' = (in_run /\ ret.result # "Done")
        /\ pre' = History("step", Self, callback(Self, hook), fetched(Self, hook),
                          hook, NoImage)
        /\ hook_calls' = hook_calls + 1
        /\ steps' = steps + 1
        /\ UNCHANGED <<overflow_checks, game_state, game_loop>>

\* One call of run_cycle_with_callback(hook), from the loop of run() or not
Step(hook) ==
    /\ Alive /\ steps < MaxSteps
    /\ Stepped(run_cycle_with_callback(Self, hook), hook)

\* cpu.run(): enter the loop
Run ==
    /\ Alive /\ ~in_run /\ steps < MaxSteps
    /\ in_run' = TRUE
    /\ pre' = History("run", Self, Self, -1, NoHook, NoImage)
    /\ UNCHANGED <<register_a, register_x, register_y, status, program_counter,
                   stack_pointer, memory, panic, overflow_checks, game_state,
                   game_loop, result, hook_calls, steps>>

\* one iteration of the loop of run(): the callback is |_| {}
RunLoop == in_run /\ Step(NoHook)

\* cpu.run_cycle_with_callback(|_| {}) called once by a host
RunSingle == ~in_run /\ Step(NoHook)

\* cpu.run_cycle_with_callback(hook) called by a host
RunCycle ==
    /\ ~in_run
    /\ \E hook \in {NoHook}
            \cup {[kind |-> "mem_write", addr |-> program_counter, data |-> b] : b \in HookBytes}
            \cup {[kind |-> "register_a", addr |-> 0, data |-> v] : v \in PokeValues} :
          Step(hook)

Next ==
    \/ \E program \in Programs : Load(program)
    \/ Reset
    \/ \E v \in PokeValues : SetRegisterA(v)
    \/ \E v \in PokeValues : SetRegisterX(v)
    \/ Run
    \/ RunLoop

\* The lifecycle: default(), load, reset, the public fields, run()
Spec == Init /\ [][Next]_vars

----------------------------------------------------------------------------
(* Single steps with a hook, from a Cpu that was loaded and reset *)

InitHook ==
    \E program \in {p \in Programs : p.len <= 5} :
        StartFrom(reset(load(Default, program)))

SpecHook == InitHook /\ [][RunCycle]_vars

----------------------------------------------------------------------------
(* Every opcode byte, stepped once or run: a Cpu built through the public  *)
(* surface (mem_write, the public fields) with one instruction at the      *)
(* counter                                                                 *)

\* Where the instruction is placed: the load origin and the top of memory
DecodeOrigins == {1536, 65532, 65533, 65534}
\* Its two operand bytes: $0210 / +16, $00FE / -2
DecodeOperands == {<<16, 2>>, <<254, 0>>}
\* The flags before it: none, or Negative, Overflow, Zero and Carry
DecodeStatus == {0, 195}

\* cpu.mem_write(addr, data) where the array has that index
poke(c, addr, data) == IF addr < MEMORY_LEN THEN mem_write(c, addr, data) ELSE c

DecodeStart(code, operands, at, st) ==
    [poke(poke(poke(Default, at, code), at + 1, operands[1]), at + 2, operands[2])
        EXCEPT !.program_counter = at, !.status = st,
               !.register_x = 1, !.register_y = 2, !.register_a = 128]

InitDecode ==
    \E code \in U8, operands \in DecodeOperands, at \in DecodeOrigins,
       st \in DecodeStatus :
        StartFrom(DecodeStart(code, operands, at, st))

NextDecode ==
    \/ Run
    \/ RunLoop
    \/ RunSingle

SpecDecode == InitDecode /\ [][NextDecode]_vars

-----------------------------------------------------------------------------
(* Short programs run to their BRK, set up as the crate's tests do: load,  *)
(* reset, then the public fields                                           *)

\* Zero-page addresses for LDA $z
ProgZeroPage == {0, 16, 255}
\* Flags stored into the public status field before run()
ProgStatus == {0, 195}
\* TAX TAY TXA TYA TSX TXS, INX INY DEX DEY
ProgOpcodes == {170, 168, 138, 152, 186, 154, 232, 200, 202, 136}

\* cpu.load(program); cpu.reset()
Prepared(c, bytes) == reset(load(c, Image(bytes)))

\* Four pairwise different register values, each ranging over all bytes with v
Registers(c, v, st) ==
    [c EXCEPT !.register_a = v, !.register_x = wrap8(v + 85),
              !.register_y = wrap8(v + 170), !.stack_pointer = wrap8(v + 51),
              !.status = st]

InitProg ==
    \E v \in U8, st \in ProgStatus :
        \/ StartFrom([Prepared(Default, <<169, v, 0>>) EXCEPT !.status = st])
        \/ \E z \in ProgZeroPage :
              StartFrom([Prepared(mem_write(Default, z, v), <<165, z, 0>>)
                            EXCEPT !.status = st])
        \/ \E op \in ProgOpcodes :
              StartFrom(Registers(Prepared(Default, <<op, 0>>), v, st))
        \/ StartFrom(Prepared(Default, <<169, 192, 170, 232, 0>>))
        \/ StartFrom([Prepared(Default, <<232, 232, 0>>)
                         EXCEPT !.register_x = U8_MAX])

NextProg ==
    \/ Run
    \/ RunLoop

SpecProg == InitProg /\ [][NextProg]_vars

-----------------------------------------------------------------------------
(* One ADC or SBC in immediate mode, for every accumulator and operand    *)

\* ADC #m, SBC #m
AluOpcodes == {105, 233}
\* The flags before: carry-in clear or set
AluStatus == {0, 1}

\* ... and with every other flag set as well, for these bytes
AluBoundary == {0, 1, 127, 128, 255}
AluStatusFull == {254, 255}

InitAlu ==
    \E op \in AluOpcodes :
        \/ \E a \in U8, m \in U8, st \in AluStatus :
              StartIn([Prepared(Default, <<op, m, 0>>)
                          EXCEPT !.register_a = a, !.status = st], TRUE)
        \/ \E a \in AluBoundary, m \in AluBoundary, st \in AluStatusFull :
              StartFrom([Prepared(Default, <<op, m, 0>>)
                            EXCEPT !.register_a = a, !.status = st])

\* The instruction at the load origin, stepped once
NextAlu == steps = 0 /\ RunSingle

SpecAlu == InitAlu /\ [][NextAlu]_vars

-----------------------------------------------------------------------------
(* One CMP, CPX or CPY: every register value against every operand         *)

\* CMP #m, CPX #m, CPY #m
CmpImmediate == {201, 224, 192}
\* CMP $z, CPX $z, CPY $z
CmpZeroPage == {197, 228, 196}
\* Operand and register bytes for the forms that are not run exhaustively
CmpBoundary == {0, 1, 5, 127, 128, 255}
\* Flags before: none; Negative, Overflow, Zero, Carry; all
CmpStatus == {0, 195, 255}

\* The register file with the compared register (A for CMP, X for CPX,
\* Y for CPY) holding r and the others pairwise different from it
CmpRegisters(c, op, r, st) ==
    CASE op \in {201, 197} -> Registers(c, r, st)
      [] op \in {224, 228} -> Registers(c, wrap8(r + 171), st)
      [] OTHER             -> Registers(c, wrap8(r + 86), st)

InitCmp ==
    \/ \E r \in U8, m \in U8 :
          StartIn(CmpRegisters(Prepared(Default, <<201, m, 0>>), 201, r, 0), TRUE)
    \/ \E op \in CmpImmediate, r \in U8, m \in CmpBoundary, st \in CmpStatus :
          StartFrom(CmpRegisters(Prepared(Default, <<op, m, 0>>), op, r, st))
    \/ \E op \in CmpImmediate, r \in CmpBoundary, m \in U8, st \in CmpStatus :
          StartFrom(CmpRegisters(Prepared(Default, <<op, m, 0>>), op, r, st))
    \/ \E op \in CmpZeroPage, r \in CmpBoundary, m \in CmpBoundary, st \in CmpStatus :
          StartFrom(CmpRegisters(
              Prepared(mem_write(Default, 16, m), <<op, 16, 0>>), op, r, st))

\* The instruction at the load origin, stepped once
NextCmp == steps = 0 /\ RunSingle

SpecCmp == InitCmp /\ [][NextCmp]_vars

-----------------------------------------------------------------------------
(* Jumps and calls: JMP ($Q) over pointers at and off a page boundary, and *)
(* JSR followed by a subroutine that returns                               *)

\* Memories holding pointer bytes: the two arrangements around 0x30FF (low
\* byte 0x40 with 0x80 at the page start, and the reverse), one around
\* 0x02FF, one around 0x00FF
JumpMemories ==
    { (12543 :> 64) @@ (12288 :> 128) @@ (12544 :> 80),
      (12543 :> 128) @@ (12288 :> 64) @@ (12544 :> 80),
      (766 :> 52) @@ (767 :> 18) @@ (768 :> 86) @@ (512 :> 120),
      (255 :> 32) @@ (256 :> 9) @@ (0 :> 7) }

\* Pointer addresses Q for JMP ($Q)
JumpPointers == {12543, 12288, 12542, 766, 767, 255, 512}

\* Subroutine addresses T for JSR T, its bodies (the bytes from T + 2 on),
\* and the stack pointer before the call
CallTargets == {1792, 1552, 12541}
CallBodies == { <<96>>, <<234, 96>>, <<72, 104, 96>>, <<104, 96>> }
CallStackPointers == {0, 1, 2, 253, 255}
\* Where the JSR sits
CallOrigins == {1536, 4350}

Low(w) == w % 256
High(w) == w \div 256

RECURSIVE poke_bytes(_, _, _)
\* cpu.mem_write(at, b) for each byte b of bytes, in ascending addresses
poke_bytes(c, at, bytes) ==
    IF bytes = << >> THEN c
    ELSE poke_bytes(poke(c, at, Head(bytes)), at + 1, Tail(bytes))

InitJump ==
    \/ \E mem \in JumpMemories, q \in JumpPointers :
          StartFrom(Prepared([Default EXCEPT !.memory = mem],
                             <<108, Low(q), High(q), 0>>))
    \/ \E t \in CallTargets, body \in CallBodies, sp \in CallStackPointers,
          at \in CallOrigins :
          StartFrom([poke_bytes(poke_bytes(Default, t + 2, body),
                                at, <<32, Low(t), High(t)>>)
                        EXCEPT !.program_counter = at, !.stack_pointer = sp,
                               !.register_a = 171])

NextJump ==
    \/ Run
    \/ RunLoop
    \/ RunSingle

SpecJump == InitJump /\ [][NextJump]_vars

----------------------------------------------------------------------------
(* The stack on its own: stack_push and stack_pop called from every stack  *)
(* pointer, on a memory that holds bytes at both ends of page 0x0100 and    *)
(* right outside it.  The first operations are pushes of any byte and       *)
(* pops in any order; then pushes of one byte follow each other.            *)

MaxPushes == 256      \* the longest run of consecutive pushes
MixedOps == 2         \* pops are called among the first operations only
PushValues == {1, 255}
PushFill == 170       \* 0xAA, the byte of the later pushes

\* 0x00FF..0x0101 and 0x01FE..0x0200
StackMemory ==
    poke_bytes(poke_bytes(Default, 255, <<85, 17, 68>>), 510, <<51, 34, 102>>).memory

\* History of the last stack operation: the Cpu before it, the byte pushed
\* or returned, the number of pushes since the last pop, the stack pointer
\* before the first of them, and the operation before this one with its
\* byte or word and the stack pointer it started from
PushesBefore == IF pre.op = "push" THEN pre.pushes ELSE 0

StackHistory(op, data) ==
    [op |-> op, before |-> Self, data |-> data,
     pushes |-> IF op = "push" THEN PushesBefore + 1 ELSE 0,
     first |-> IF op = "push" /\ pre.op = "push" THEN pre.first
               ELSE stack_pointer,
     prior |-> [op |-> pre.op,
                data |-> IF pre.op = "none" THEN -1 ELSE pre.data,
                sp |-> IF pre.op = "none" THEN -1 ELSE pre.before.stack_pointer]]

\* The stack's arithmetic is wrapping_add / wrapping_sub and a sum below
\* 0x0200: no build profile changes it, the checking one is taken
InitStack ==
    \E sp \in U8 :
        StartIn([Default EXCEPT !.memory = StackMemory, !.stack_pointer = sp], TRUE)

\* cpu.stack_push(data)
StackPush(data) ==
    /\ Alive /\ PushesBefore < MaxPushes
    /\ Assign(stack_push(Self, data))
    /\ pre' = StackHistory("push", data)
    /\ steps' = steps + 1
    /\ UNCHANGED <<game_state, game_loop, overflow_checks, result, in_run, hook_calls>>

\* cpu.stack_pop()
StackPop ==
    /\ Alive /\ steps < MixedOps
    /\ Assign(after_pop(Self))
    /\ pre' = StackHistory("pop", popped(Self))
    /\ steps' = steps + 1
    /\ UNCHANGED <<game_state, game_loop, overflow_checks, result, in_run, hook_calls>>

NextStack ==
    \/ \E data \in PushValues : steps = 0 /\ StackPush(data)
    \/ steps > 0 /\ StackPush(PushFill)
    \/ StackPop

SpecStack == InitStack /\ [][NextStack]_vars

----------------------------------------------------------------------------
(* The memory on its own: mem_write and mem_read called with addresses     *)
(* from both ends of the 16-bit range.                                      *)

MaxAccesses == 3
MemAddresses == {0, 255, 256, 1536, 32768, 65533, 65534, 65535}
MemValues == {0, 1, 255}

\* History of the last access: the Cpu before it, the address, and the byte
\* written or the outcome of the read (a byte, or the code of its panic)
MemHistory(op, addr, data) ==
    [op |-> op, before |-> Self, addr |-> addr, data |-> data]

InitMemory == StartFrom(Default)

\* cpu.mem_write(addr, data)
MemWrite(addr, data) ==
    /\ Alive /\ steps < MaxAccesses
    /\ Assign(mem_write(Self, addr, data))
    /\ pre' = MemHistory("write", addr, data)
    /\ steps' = steps + 1
    /\ UNCHANGED <<game_state, game_loop, overflow_checks, result, in_run, hook_calls>>

\* cpu.mem_read(addr)
MemRead(addr) ==
    /\ Alive /\ steps < MaxAccesses
    /\ \E byte \in {mem_read(Self, addr)} :
          /\ Assign(IF byte < 0 THEN Panic(Self, byte) ELSE Self)
          /\ pre' = MemHistory("read", addr, byte)
    /\ steps' = steps + 1
    /\ UNCHANGED <<game_state, game_loop, overflow_checks, result, in_run, hook_calls>>

NextMemory ==
    \/ \E addr \in MemAddresses, data \in MemValues : MemWrite(addr, data)
    \/ \E addr \in MemAddresses : MemRead(addr)

SpecMemory == InitMemory /\ [][NextMemory]_vars

----------------------------------------------------------------------------
(* reset() called on a Cpu whose public fields hold any bytes, before and  *)
(* after a run of INX; BRK, with the reset vector load writes or one        *)
(* written by the host                                                      *)

ResetStatus == {0, 195, 255}
\* The vector of load (0x0600) and 0x8001, whose two bytes differ
ResetVectors == {GAME_START_ADDRESS, 32769}

InitReset ==
    \E v \in U8, st \in ResetStatus, vector \in ResetVectors :
        StartFrom([Registers(mem_write_u16(load(Default, Image(<<232, 0>>)),
                                           RESET_ADDRESS, vector), v, st)
                      EXCEPT !.program_counter = GAME_START_ADDRESS])

NextReset ==
    \/ Reset
    \/ Run
    \/ RunLoop

SpecReset == InitReset /\ [][NextReset]_vars

----------------------------------------------------------------------------
(* One step on a read-modify-write instruction: ASL, LSR, ROL, ROR on the  *)
(* accumulator, on a zero-page byte and on an absolute address, INC and     *)
(* DEC on a zero-page byte and on an absolute address; every operand byte,  *)
(* the carry clear and set.                                                 *)

ShiftAccumulator == {10, 74, 42, 106}      \* 0x0A 0x4A 0x2A 0x6A
ShiftZeroPage == {6, 70, 38, 102}          \* 0x06 0x46 0x26 0x66
ShiftAbsolute == {14, 78, 46, 110}         \* 0x0E 0x4E 0x2E 0x6E
IncDecZeroPage == {230, 198}               \* 0xE6 0xC6
IncDecAbsolute == {238, 206}               \* 0xEE 0xCE
\* Flags before: none; Carry; all but Carry; all
ModifyStatus == {0, 1, 254, 255}
ModifyZeroPage == 16                       \* the zero-page operand, 0x10
ModifyAbsolute == 528                      \* the absolute operand, 0x0210

InitModify ==
    \E v \in U8, st \in ModifyStatus :
        \/ \E op \in ShiftAccumulator :
              StartFrom(Registers(Prepared(Default, <<op, 0>>), v, st))
        \/ \E op \in ShiftZeroPage \cup IncDecZeroPage :
              StartFrom(Registers(
                  Prepared(mem_write(Default, ModifyZeroPage, v),
                           <<op, ModifyZeroPage, 0>>),
                  wrap8(v + 7), st))
        \/ \E op \in ShiftAbsolute \cup IncDecAbsolute :
              StartFrom(Registers(
                  Prepared(mem_write(Default, ModifyAbsolute, v),
                           <<op, Low(ModifyAbsolute), High(ModifyAbsolute), 0>>),
                  wrap8(v + 7), st))

\* The instruction at the load origin, stepped once
NextModify == steps = 0 /\ RunSingle

SpecModify == InitModify /\ [][NextModify]_vars

----------------------------------------------------------------------------
(* The status byte through the stack: PHP from every status, PLP and RTI   *)
(* on every byte on top of the stack, from stack pointers at both ends of   *)
(* the page; PHP followed by PLP.                                           *)

StatusStackPointers == {0, 1, 128, 252, 253, 254, 255}
\* The live status before a PLP / RTI
StatusBefore == {0, 48, 255}
\* Addresses under the status byte for RTI: 0x0700, 0x1234, 0x00FF
ReturnAddresses == {1792, 4660, 255}

InitStatus ==
    \E sp \in StatusStackPointers :
        \/ \E st \in U8, prog \in {<<8, 0>>, <<8, 40, 0>>} :
              StartFrom([Registers(Prepared(Default, prog), 7, st)
                            EXCEPT !.stack_pointer = sp])
        \/ \E b \in U8, st \in StatusBefore :
              StartFrom([Registers(
                            Prepared(mem_write(Default, STACK + wrap8(sp + 1), b),
                                     <<40, 0>>), 7, st)
                            EXCEPT !.stack_pointer = sp])
        \/ \E b \in U8, st \in StatusBefore, w \in ReturnAddresses :
              StartFrom([Registers(
                            Prepared(
                                mem_write(
                                    mem_write(
                                        mem_write(Default, STACK + wrap8(sp + 1), b),
                                        STACK + wrap8(sp + 2), Low(w)),
                                    STACK + wrap8(sp + 3), High(w)),
                                <<64, 0>>), 7, st)
                            EXCEPT !.stack_pointer = sp])

\* The program at the load origin, stepped once or twice
NextStatus == steps < 2 /\ RunSingle

SpecStatus == InitStatus /\ [][NextStatus]_vars

----------------------------------------------------------------------------
(* A push followed by the matching pop, bytes and 16-bit words: every word *)
(* from stack pointer 0 (its two bytes sit at both ends of the page), every *)
(* byte from stack pointers 0 and 255, and boundary values from every       *)
(* stack pointer; a pop from the initial memory as well.                    *)

PairStackPointers == {0, 255}
PairWords == {0, 1, 255, 256, 4660, 32768, 65280, 65535}
PairBytes == {0, 1, 127, 128, 255}
U16 == 0..65535

InitStackPair ==
    \E sp \in U8 :
        StartIn([Default EXCEPT !.memory = StackMemory, !.stack_pointer = sp], TRUE)

\* cpu.stack_push_u16(data)
StackPushU16(data) ==
    /\ Alive
    /\ Assign(stack_push_u16(Self, data))
    /\ pre' = StackHistory("push16", data)
    /\ steps' = steps + 1
    /\ UNCHANGED <<game_state, game_loop, overflow_checks, result, in_run, hook_calls>>

\* cpu.stack_pop_u16()
StackPopU16 ==
    /\ Alive
    /\ Assign(after_pop_u16(Self))
    /\ pre' = StackHistory("pop16", popped_u16(Self))
    /\ steps' = steps + 1
    /\ UNCHANGED <<game_state, game_loop, overflow_checks, result, in_run, hook_calls>>

NextStackPair ==
    \/ /\ steps = 0
       /\ \E w \in (IF stack_pointer = 0 THEN U16 ELSE PairWords) : StackPushU16(w)
    \/ /\ steps = 0
       /\ \E b \in (IF stack_pointer \in PairStackPointers THEN U8 ELSE PairBytes) :
             StackPush(b)
    \/ pre.op \in {"none", "push16"} /\ StackPopU16
    \/ pre.op \in {"none", "push"} /\ StackPop

SpecStackPair == InitStackPair /\ [][NextStackPair]_vars

----------------------------------------------------------------------------
(* The operand resolver on its own: get_operand_address called in the      *)
(* indexed and the indirect modes, the operand bytes under the program      *)
(* counter, every zero-page byte holding a byte of its own.                 *)

IndexedModes == {"ZeroPageX", "ZeroPageY", "AbsoluteX", "AbsoluteY"}
IndirectModes == {"IndirectX", "IndirectY"}
\* Register bytes and operand high bytes for the runs that are not exhaustive
AddressBoundary == {0, 1, 128, 255}
AddressHigh == {0, 2}
TopPage == 255           \* high byte of an operand in page 0xFF00
\* memory[i] for i in the zero page: 3, 10, 17, ... (all different), and a
\* byte at 0x0100 that no zero-page pointer may reach
ZeroPagePattern == [i \in 0..255 |-> (7 * i + 3) % 256] @@ (256 :> 238)

\* X = r, Y = r + 85, the operand bytes z and high at the program counter
AddressStart(z, high, r) ==
    [poke_bytes([Default EXCEPT !.memory = ZeroPagePattern],
                GAME_START_ADDRESS, <<z, high>>)
        EXCEPT !.program_counter = GAME_START_ADDRESS,
               !.register_x = r, !.register_y = wrap8(r + 85),
               !.register_a = 9, !.status = 195, !.stack_pointer = 253]

InitAddress ==
    \/ \E z \in U8, r \in U8 : StartIn(AddressStart(z, TopPage, r), TRUE)
    \/ \E z \in U8, r \in AddressBoundary, high \in AddressHigh :
          StartFrom(AddressStart(z, high, r))

\* History of the last call: the Cpu before it, the mode, the address
\* returned (or the code of the panic)
AddressHistory(mode, addr) ==
    [op |-> "resolve", before |-> Self, mode |-> mode, data |-> addr]

\* cpu.get_operand_address(mode)
Resolve(mode) ==
    /\ Alive /\ steps = 0
    /\ \E addr \in {get_operand_address(Self, mode)} :
          /\ Assign(IF addr < 0 THEN Panic(Self, addr) ELSE Self)
          /\ pre' = AddressHistory(mode, addr)
    /\ steps' = steps + 1
    /\ UNCHANGED <<game_state, game_loop, overflow_checks, result, in_run, hook_calls>>

NextAddress == \E mode \in IndexedModes \cup IndirectModes : Resolve(mode)

SpecAddress == InitAddress /\ [][NextAddress]_vars

----------------------------------------------------------------------------
(* One step on LDX or LDY, immediate and zero page, every operand byte     *)

IndexLoadImmediate == {162, 160}     \* 0xA2 LDX #, 0xA0 LDY #
IndexLoadZeroPage == {166, 164}      \* 0xA6 LDX zp, 0xA4 LDY zp
IndexLoadRegisters == {0, 1, 128, 200}
IndexLoadStatus == {0, 195}

InitIndexLoad ==
    \E v \in U8, r \in IndexLoadRegisters, st \in IndexLoadStatus :
        \/ \E op \in IndexLoadImmediate :
              StartFrom(Registers(Prepared(Default, <<op, v, 0>>), r, st))
        \/ \E op \in IndexLoadZeroPage :
              StartFrom(Registers(
                  Prepared(mem_write(Default, ModifyZeroPage, v),
                           <<op, ModifyZeroPage, 0>>), r, st))

\* The instruction at the load origin, stepped once
NextIndexLoad == steps = 0 /\ RunSingle

SpecIndexLoad == InitIndexLoad /\ [][NextIndexLoad]_vars

----------------------------------------------------------------------------
(* The host's keyboard handler (src/app.rs): on_keypress called with keys  *)
(* of both cases and keys the handler does not map, on a Cpu that was       *)
(* loaded and reset.                                                        *)

LAST_PRESSED_BUTTON_ADDRESS == 255      \* lib.rs: 0xFF
MaxKeyEvents == 3
\* KeyboardEvent.key values
Keys == {"w", "a", "s", "d", "W", "A", "S", "D", "x", "1", "Enter", "ArrowUp"}
\* The byte at 0x00FF before the first event: none, 'w', ' '
KeysLastBefore == {0, 119, 32}
KeysRegisters == {0, 77, 255}

\* e.key().to_lowercase()
to_lowercase(key) ==
    CASE key = "W" -> "w"
      [] key = "A" -> "a"
      [] key = "S" -> "s"
      [] key = "D" -> "d"
      [] key = "Enter" -> "enter"
      [] key = "ArrowUp" -> "arrowup"
      [] OTHER -> key

\* Mutant of keycode: the key is matched as it comes (no to_lowercase)
keycode_case_sensitive(key) ==
    CASE key = "w" -> 119
      [] key = "s" -> 115
      [] key = "a" -> 97
      [] key = "d" -> 100
      [] OTHER -> -1

\* let keycode: u8 = match ... { "w" => 0x77, ..., _ => return }: the code,
\* or -1 where the handler returns
keycode(key) ==
    LET lower == to_lowercase(key) IN
    CASE lower = "w" -> 119
      [] lower = "s" -> 115
      [] lower = "a" -> 97
      [] lower = "d" -> 100
      [] OTHER -> -1

\* set_cpu.update(|cpu| cpu.mem_write(LAST_PRESSED_BUTTON_ADDRESS.into(), keycode))
on_keypress(c, key) ==
    IF keycode(key) < 0 THEN c
    ELSE mem_write(c, LAST_PRESSED_BUTTON_ADDRESS, keycode(key))

\* History of the last key event: the Cpu before it, the key, and the code
\* of the latest event the handler mapped (-1: none so far)
KeyHistory(key) ==
    [op |-> "key", before |-> Self, key |-> key,
     mapped |-> IF keycode(key) >= 0 THEN keycode(key)
                ELSE IF pre.op = "key" THEN pre.mapped ELSE -1]

InitKeys ==
    \E v \in KeysRegisters, last \in KeysLastBefore :
        StartFrom(Registers(
            mem_write(Prepared(Default, <<234, 0>>), LAST_PRESSED_BUTTON_ADDRESS, last),
            v, 195))

\* on:keypress={on_keypress}
KeyPress(key) ==
    /\ Alive /\ steps < MaxKeyEvents
    /\ Assign(on_keypress(Self, key))
    /\ pre' = KeyHistory(key)
    /\ steps' = steps + 1
    /\ UNCHANGED <<game_state, game_loop, overflow_checks, result, in_run, hook_calls>>

NextKeys == \E key \in Keys : KeyPress(key)

SpecKeys == InitKeys /\ [][NextKeys]_vars

----------------------------------------------------------------------------
(* The host loop (src/src/app.rs): the GameState signal, the animation-   *)
(* frame loop, run_next_cycle and the four buttons                        *)

RNG_ADDRESS == 254      \* lib.rs; app.rs writes the literal 0xfe
MaxFrames == 3          \* calls of run_next_cycle in one behaviour

\* rand::thread_rng().gen_range(1..16)
RandomBytes == 1..15

\* Images loaded in place of the game: LDA $FE; STA $10; BRK; INX; BRK /
\* BRK; BRK; INX / INX; INY; INX; INY; INX / an illegal byte
HostPrograms == { <<165, 254, 133, 16, 0, 232, 0>>, <<0, 0, 232>>,
                  <<232, 200, 232, 200, 232>>, <<255>> }

\* cpu.run_single_cycle(): one step, no hook
run_single_cycle(c) == run_cycle_with_callback(c, NoHook)

\* Mutant of on_run_result: a step that reports Done leaves the game state
on_run_result_keeps_running(res, state) == state

\* run_next_cycle's match on the RunResult of its step: Running => {},
\* Done => set_game_state.set(GameState::Paused); gives the game state
on_run_result(res, state) == IF res = "Done" THEN "Paused" ELSE state

\* The effect on game_state: Paused => (game_loop.pause)(),
\* Running => (game_loop.resume)(); gives whether the loop is active
game_loop_effect(state) == state = "Running"

\* History of the last host operation: its name, the Cpu and the host state
\* before it; for run_next_cycle the value drawn, the Cpu after the write
\* of it, the byte the step fetched, and whether the frame loop called it
HostHistory(op, r, auto) ==
    [op |-> op, before |-> Self, state |-> game_state, loop |-> game_loop,
     rand |-> r, auto |-> auto,
     cpu |-> IF op = "frame" THEN mem_write(Self, RNG_ADDRESS, r) ELSE Self,
     opcode |-> IF op = "frame"
                THEN fetched(mem_write(Self, RNG_ADDRESS, r), NoHook) ELSE -1,
     steps |-> steps]

\* App(): Cpu::default(), load, reset; GameState::default(); the frame loop
\* is created and paused at once
InitHost ==
    \E bytes \in HostPrograms : StartFrom(Prepared(Default, bytes))

\* One call of run_next_cycle, the random value drawn being r: the write of
\* the random byte, then (after the screen is read and drawn, which changes
\* nothing) one step, then the match on what the step returned
RunNextCycle(r, auto) ==
    /\ Alive /\ steps < MaxFrames
    /\ \E written \in {mem_write(Self, RNG_ADDRESS, r)} :
       \E ret \in {run_single_cycle(written)} :
       \E state \in {on_run_result(ret.result, game_state)} :
          /\ Assign(ret.cpu)
          /\ result' = IF ret.result = "Panic" THEN "None" ELSE ret.result
          /\ game_state' = state
          /\ game_loop' = IF state = game_state THEN game_loop
                          ELSE game_loop_effect(state)
    /\ pre' = HostHistory("frame", r, auto)
    /\ hook_calls' = hook_calls + 1
    /\ steps' = steps + 1
    /\ UNCHANGED <<overflow_checks, in_run>>

\* The frame loop fires: use_raf_fn(move |_| run_next_cycle()), while active
Frame == game_loop /\ \E r \in RandomBytes : RunNextCycle(r, TRUE)

\* A click that sets the game state, and the effect that follows
SetGameState(op, state) ==
    /\ Alive
    /\ game_state' = state
    /\ game_loop' = IF state = game_state THEN game_loop ELSE game_loop_effect(state)
    /\ pre' = HostHistory(op, -1, FALSE)

\* <button disabled={running}>Start</button>
ClickStart ==
    /\ game_state # "Running"
    /\ SetGameState("start", "Running")
    /\ UNCHANGED <<register_a, register_x, register_y, status, program_counter,
                   stack_pointer, memory, panic, overflow_checks, result,
                   in_run, hook_calls, steps>>

\* <button disabled={paused}>Stop</button>
ClickStop ==
    /\ game_state # "Paused"
    /\ SetGameState("stop", "Paused")
    /\ UNCHANGED <<register_a, register_x, register_y, status, program_counter,
                   stack_pointer, memory, panic, overflow_checks, result,
                   in_run, hook_calls, steps>>

\* <button disabled={running}>Advance 1 frame</button>
ClickAdvance ==
    /\ game_state # "Running"
    /\ \E r \in RandomBytes : RunNextCycle(r, FALSE)

\* <button>Reset</button>: Paused, then cpu.reset()
ClickReset ==
    /\ SetGameState("reset", "Paused")
    /\ Assign(reset(Self))
    /\ UNCHANGED <<overflow_checks, result, in_run, hook_calls, steps>>

NextHost ==
    \/ Frame
    \/ ClickStart
    \/ ClickStop
    \/ ClickAdvance
    \/ ClickReset

SpecHost == InitHost /\ [][NextHost]_vars

----------------------------------------------------------------------------
(* Steps after a BRK: BRK at the counter, every byte value behind it *)

\* Where the BRK lies: the load origin, 0xFFFD (the next opcode's operand
\* would lie at 0xFFFF), 0xFFFE (the next fetch would be at 0xFFFF)
HaltOrigins == {1536, 65533, 65534}

InitHalt ==
    \E code \in U8, operands \in DecodeOperands, at \in HaltOrigins,
       st \in DecodeStatus :
        StartFrom([poke_bytes(Default, at, <<0, code>> \o operands)
                      EXCEPT !.program_counter = at, !.status = st,
                             !.register_x = 1, !.register_y = 2,
                             !.register_a = 128])

SpecHalt == InitHalt /\ [][NextDecode]_vars

----------------------------------------------------------------------------
(* The DecimalMode and DisableInterrupts bits: every opcode byte, from     *)
(* status bytes with and without them, over a stack that holds them or not *)

\* The flags before the step: none, I, D, both, all eight, all but D and I
FlagStatus == {0, 4, 8, 12, 255, 243}
\* The byte PLP / RTI pop (at 0x0101, the stack pointer being 0)
FlagStackBytes == {0, 12, 247}
\* Operand bytes: #$01 / $0001, #$10 / $0210, #$FE / $00FE
FlagOperands == {<<1, 0>>, <<16, 2>>, <<254, 0>>}
\* Register A before the step
FlagAccumulators == {9, 128}

InitFlags ==
    \E code \in U8, operands \in FlagOperands, st \in FlagStatus,
       below \in FlagStackBytes, a \in FlagAccumulators :
        StartFrom([poke(poke_bytes(Default, GAME_START_ADDRESS, <<code>> \o operands),
                        STACK + 1, below)
                      EXCEPT !.program_counter = GAME_START_ADDRESS, !.status = st,
                             !.register_x = 1, !.register_y = 2, !.register_a = a])

NextFlags == steps < 2 /\ RunSingle

SpecFlags == InitFlags /\ [][NextFlags]_vars

----------------------------------------------------------------------------
(* Claims *)

LastStep == pre.op = "step"
\* The address the last step fetched from
P == pre.cpu.program_counter

SameRegisters(c) ==
    /\ register_a = c.register_a
    /\ register_x = c.register_x
    /\ register_y = c.register_y
    /\ status = c.status
    /\ stack_pointer = c.stack_pointer

\* What load is claimed to do with the image of the last load
Loaded(program) ==
    /\ panic = NO_PANIC
    /\ \A i \in 0..(program.len - 1) :
          byte_at(memory, GAME_START_ADDRESS + i) = image_byte(program, i)
    /\ byte_at(memory, RESET_ADDRESS) = GAME_START_ADDRESS % 256
    /\ byte_at(memory, RESET_ADDRESS + 1) = GAME_START_ADDRESS \div 256
    /\ reset(Self).program_counter = GAME_START_ADDRESS
    /\ SameRegisters(pre.before)
    /\ program_counter = pre.before.program_counter

\* C1 as stated: for every program image, load copies the bytes unchanged to
\* 0x0600.., writes 0x00 to 0xFFFC and 0x06 to 0xFFFD so that a following
\* reset sets the program counter to 0x0600, and changes no register, flag
\* or stack pointer.
C1_LoadAnyImage == pre.op = "load" => Loaded(pre.program)

\* C1 amended: the same for every image that ends below the reset vector
\* (0x0600 + len <= 0xFFFC, at most 63996 bytes).
C1_LoadImageBelowVector ==
    (pre.op = "load" /\ GAME_START_ADDRESS + pre.program.len <= RESET_ADDRESS)
        => Loaded(pre.program)

\* C1 witness: the five-byte test program loaded into a Cpu whose
\* accumulator was set before
C1_Witness ==
    /\ pre.op = "load" /\ pre.program.len = 5
    /\ byte_at(memory, GAME_START_ADDRESS) = 169
    /\ byte_at(memory, GAME_START_ADDRESS + 3) = 232
    /\ register_a = 10

\* C3: in every step the hook runs exactly once and before the fetch: the
\* byte a hook writes under the program counter is the instruction the step
\* executes (BRK ends it with Done, INX/TAX/NOP act on the registers, an
\* illegal byte is fatal), a register the hook sets is the one the executor
\* reads, and the step executes that one instruction only (the counter ends
\* one past a one-byte instruction).
C3_HookBeforeFetch ==
    LastStep =>
        /\ hook_calls = steps
        /\ (pre.hook.kind = "mem_write" /\ pre.hook.data = 0) =>
               (result = "Done" /\ panic = NO_PANIC /\ program_counter = P + 1)
        /\ (pre.hook.kind = "mem_write" /\ pre.hook.data = 232) =>
               /\ result = "Running"
               /\ register_x = wrap8(pre.before.register_x + 1)
               /\ program_counter = P + 1
        /\ (pre.hook.kind = "mem_write" /\ pre.hook.data = 170) =>
               /\ result = "Running"
               /\ register_x = pre.before.register_a
               /\ program_counter = P + 1
        /\ (pre.hook.kind = "mem_write" /\ pre.hook.data = 234) =>
               /\ result = "Running"
               /\ SameRegisters(pre.before)
               /\ program_counter = P + 1
        /\ (pre.hook.kind = "mem_write" /\ pre.hook.data = 255) =>
               (panic = ILLEGAL_OPCODE /\ result = "None")
        /\ (pre.hook.kind = "register_a" /\ pre.opcode = 170) =>
               (register_x = pre.hook.data /\ register_a = pre.hook.data)

\* C3 witness: a hook replaced the LDA under the counter by INX, and the
\* step incremented X
C3_Witness ==
    /\ LastStep /\ pre.hook.kind = "mem_write" /\ pre.hook.data = 232
    /\ byte_at(pre.before.memory, P) = 169
    /\ register_x = 1 /\ result = "Running"

\* The table entry of the byte the last step fetched
Fetched == OPCODES_MAP[pre.opcode]
Recognised == pre.opcode \in DOMAIN OPCODES_MAP

\* C2: run() returns exactly when a step fetches BRK (0x00): that step
\* reports Done and changes nothing but the program counter, which ends one
\* past the BRK byte; a step on any other recognised opcode that returns
\* reports Running, and the loop of run() goes on.
C2_DoneExactlyOnBrk ==
    LastStep =>
        /\ pre.opcode = 0 =>
              /\ result = "Done" /\ panic = NO_PANIC
              /\ SameRegisters(pre.cpu)
              /\ memory = pre.cpu.memory
              /\ program_counter = P + 1
        /\ (Recognised /\ pre.opcode # 0) => result # "Done"
        /\ (pre.opcode # 0 /\ panic = NO_PANIC) => result = "Running"
        /\ in_run = (pre.in_run /\ pre.opcode # 0)

\* C2 witness: run() has returned on a BRK that followed another instruction
C2_Witness ==
    /\ LastStep /\ pre.in_run /\ ~in_run
    /\ pre.opcode = 0 /\ result = "Done" /\ steps = 2
    /\ register_a = 128 /\ status = 195

\* C4: a fetched byte without a table entry is fatal: the step returns
\* neither Running nor Done, and A, X, Y, the status, the stack pointer and
\* the memory are as they were at the fetch.
C4_IllegalOpcodeFatal ==
    (LastStep /\ pre.opcode >= 0 /\ ~Recognised) =>
        /\ panic = ILLEGAL_OPCODE
        /\ result = "None"
        /\ SameRegisters(pre.cpu)
        /\ memory = pre.cpu.memory

\* C4 witness: the byte 0x02 was fetched at the load origin
C4_Witness ==
    /\ LastStep /\ pre.opcode = 2 /\ P = GAME_START_ADDRESS
    /\ panic = ILLEGAL_OPCODE /\ register_a = 128 /\ status = 195

ControlFlow == {"JMP", "JSR", "RTS", "RTI", "BRK"}

BranchTaken(repr, st) ==
    CASE repr = "BCC" -> ~contains(st, CarryBit)
      [] repr = "BCS" -> contains(st, CarryBit)
      [] repr = "BEQ" -> contains(st, Zero)
      [] repr = "BNE" -> ~contains(st, Zero)
      [] repr = "BMI" -> contains(st, Negative)
      [] repr = "BPL" -> ~contains(st, Negative)
      [] repr = "BVC" -> ~contains(st, Overflow)
      [] repr = "BVS" -> contains(st, Overflow)
      [] OTHER -> FALSE

\* C5: a step that fetched at P a recognised instruction other than a taken
\* branch, JMP, JSR, RTS, RTI or BRK, and that returned, ends with the
\* program counter at P + byte_length (a 16-bit address).
C5_CounterAdvancesByLength ==
    (/\ LastStep /\ panic = NO_PANIC /\ Recognised
     /\ Fetched.repr \notin ControlFlow
     /\ ~BranchTaken(Fetched.repr, pre.cpu.status))
        => program_counter = wrap16(P + Fetched.len)

\* C5 witness: LDA absolute (three bytes) at the load origin
C5_Witness ==
    /\ LastStep /\ pre.opcode = 173 /\ P = GAME_START_ADDRESS
    /\ result = "Running" /\ program_counter = GAME_START_ADDRESS + 3

\* C5, further case: a branch that was not taken moved the counter by two
C5_WitnessBranchNotTaken ==
    /\ LastStep /\ pre.opcode = 144 /\ contains(pre.cpu.status, CarryBit)
    /\ result = "Running" /\ program_counter = P + 2

\* The Zero and Negative flags are those of the byte v
ZeroNegativeOf(v) ==
    /\ contains(status, Zero) <=> (v = 0)
    /\ contains(status, Negative) <=> (v >= 128)

\* The flags other than Zero and Negative are as before the step
OtherFlagsKept ==
    BitAnd(status, 255 - Zero - Negative) = BitAnd(pre.cpu.status, 255 - Zero - Negative)

\* The program at the load origin starts with these bytes
ProgramIs(bytes) ==
    \A i \in 1..Len(bytes) : byte_at(memory, GAME_START_ADDRESS + i - 1) = bytes[i]

\* The operand byte of the last step's LDA
LdaOperand(mem, at) ==
    IF byte_at(mem, at) = 169 THEN byte_at(mem, at + 1)
    ELSE byte_at(mem, byte_at(mem, at + 1))

\* C6: for every byte v, LDA immediate, and LDA zero page with v at the
\* addressed byte, leave A = v, Zero iff v = 0, Negative iff bit 7 of v; and
\* that is what is left when the program has then stopped on its BRK.
C6_LdaLoadsOperand ==
    /\ (LastStep /\ pre.opcode \in {169, 165}) =>
          /\ panic = NO_PANIC /\ result = "Running"
          /\ register_a = LdaOperand(pre.cpu.memory, P)
          /\ ZeroNegativeOf(LdaOperand(pre.cpu.memory, P))
    /\ (/\ result = "Done" /\ steps = 2
        /\ byte_at(memory, GAME_START_ADDRESS) \in {169, 165}) =>
          /\ panic = NO_PANIC
          /\ register_a = LdaOperand(memory, GAME_START_ADDRESS)
          /\ ZeroNegativeOf(LdaOperand(memory, GAME_START_ADDRESS))

\* C6 witness: LDA $FF with 0x80 at 0x00FF, run to BRK with Zero set before
C6_Witness ==
    /\ result = "Done" /\ steps = 2 /\ ProgramIs(<<165, 255, 0>>)
    /\ byte_at(memory, 255) = 128 /\ register_a = 128
    /\ contains(status, Negative) /\ ~contains(status, Zero)
    /\ contains(status, CarryBit)

\* C6, further case: LDA #$00 sets Zero
C6_WitnessZero ==
    /\ result = "Done" /\ ProgramIs(<<169, 0, 0>>)
    /\ register_a = 0 /\ contains(status, Zero)

\* C7: each transfer copies its source register to its destination and
\* leaves the source as it was; TAX, TAY, TXA, TYA and TSX set Zero/Negative
\* from the copied byte, TXS leaves the whole status as it was; and
\* LDA #$C0; TAX; INX; BRK ends with X = 0xC1.
C7_Transfers ==
    /\ (LastStep /\ pre.opcode = 170) =>
          /\ register_x = pre.cpu.register_a /\ register_a = pre.cpu.register_a
          /\ ZeroNegativeOf(pre.cpu.register_a) /\ OtherFlagsKept
    /\ (LastStep /\ pre.opcode = 168) =>
          /\ register_y = pre.cpu.register_a /\ register_a = pre.cpu.register_a
          /\ ZeroNegativeOf(pre.cpu.register_a) /\ OtherFlagsKept
    /\ (LastStep /\ pre.opcode = 138) =>
          /\ register_a = pre.cpu.register_x /\ register_x = pre.cpu.register_x
          /\ ZeroNegativeOf(pre.cpu.register_x) /\ OtherFlagsKept
    /\ (LastStep /\ pre.opcode = 152) =>
          /\ register_a = pre.cpu.register_y /\ register_y = pre.cpu.register_y
          /\ ZeroNegativeOf(pre.cpu.register_y) /\ OtherFlagsKept
    /\ (LastStep /\ pre.opcode = 186) =>
          /\ register_x = pre.cpu.stack_pointer
          /\ stack_pointer = pre.cpu.stack_pointer
          /\ ZeroNegativeOf(pre.cpu.stack_pointer) /\ OtherFlagsKept
    /\ (LastStep /\ pre.opcode = 154) =>
          /\ stack_pointer = pre.cpu.register_x /\ register_x = pre.cpu.register_x
          /\ status = pre.cpu.status
    /\ (LastStep /\ pre.opcode \in {170, 168, 138, 152, 186, 154}) =>
          /\ panic = NO_PANIC /\ result = "Running"
          /\ memory = pre.cpu.memory
    /\ (result = "Done" /\ ProgramIs(<<169, 192, 170, 232, 0>>)) =>
          register_x = 193

\* C7 witness: TXS has copied X = 0 into the stack pointer, no flag touched
C7_Witness ==
    /\ LastStep /\ pre.opcode = 154 /\ pre.cpu.register_x = 0
    /\ pre.cpu.stack_pointer = 222 /\ stack_pointer = 0
    /\ status = 195 /\ result = "Running"

\* C7, further cases: TSX of 0x80 sets Negative; the five-instruction program
C7_WitnessTsx ==
    /\ LastStep /\ pre.opcode = 186 /\ register_x = 128
    /\ pre.cpu.register_x # 128 /\ contains(status, Negative)
C7_WitnessProgram ==
    /\ result = "Done" /\ ProgramIs(<<169, 192, 170, 232, 0>>)
    /\ register_x = 193 /\ register_a = 192

\* C8: for every byte v, INX / INY leave (v + 1) mod 256 and DEX / DEY
\* (v - 1) mod 256 in their register, in either build profile without a
\* failure, with Zero/Negative of the new byte; X = 0xFF and INX twice
\* gives X = 0x01.
C8_IndexWraps ==
    /\ (LastStep /\ pre.opcode = 232) =>
          /\ register_x = (pre.cpu.register_x + 1) % 256
          /\ ZeroNegativeOf((pre.cpu.register_x + 1) % 256)
    /\ (LastStep /\ pre.opcode = 200) =>
          /\ register_y = (pre.cpu.register_y + 1) % 256
          /\ ZeroNegativeOf((pre.cpu.register_y + 1) % 256)
    /\ (LastStep /\ pre.opcode = 202) =>
          /\ register_x = (pre.cpu.register_x - 1) % 256
          /\ ZeroNegativeOf((pre.cpu.register_x - 1) % 256)
    /\ (LastStep /\ pre.opcode = 136) =>
          /\ register_y = (pre.cpu.register_y - 1) % 256
          /\ ZeroNegativeOf((pre.cpu.register_y - 1) % 256)
    /\ (LastStep /\ pre.opcode \in {232, 200, 202, 136}) =>
          /\ panic = NO_PANIC /\ result = "Running"
          /\ OtherFlagsKept
    /\ (result = "Done" /\ ProgramIs(<<232, 232, 0>>)) =>
          register_x = 1

\* C8 witness: INX on X = 0xFF, in the build that checks arithmetic overflow
C8_Witness ==
    /\ LastStep /\ pre.opcode = 232 /\ pre.cpu.register_x = 255
    /\ register_x = 0 /\ contains(status, Zero) /\ overflow_checks
    /\ panic = NO_PANIC

\* C8, further cases: DEY on Y = 0; the test program run to its BRK
C8_WitnessDey ==
    /\ LastStep /\ pre.opcode = 136 /\ pre.cpu.register_y = 0
    /\ register_y = 255 /\ contains(status, Negative)
C8_WitnessProgram ==
    /\ result = "Done" /\ ProgramIs(<<232, 232, 0>>) /\ register_x = 1

\* The accumulator, operand byte and carry-in of the last step (immediate mode)
A_before == pre.cpu.register_a
M == byte_at(pre.cpu.memory, P + 1)
CarryIn == IF contains(pre.cpu.status, CarryBit) THEN 1 ELSE 0
Bit7(v) == v >= 128

\* The flags ADC and SBC do not write are as before the step
AluOtherFlagsKept ==
    \A flag \in {DisableInterrupts, DecimalMode, Break, Unused} :
        contains(status, flag) <=> contains(pre.cpu.status, flag)

\* C9: for every A, M and carry-in c, ADC leaves A = (A + M + c) mod 256,
\* Carry iff A + M + c > 255, Overflow iff bit 7 of (M XOR result) AND
\* (result XOR A_before) is set (the signed sum leaves -128..127), and
\* Zero/Negative of the result; 0xFF + 0x01 with c = 0 gives 0x00 with
\* Carry and Zero set, Overflow and Negative clear.
C9_AdcSumAndFlags ==
    (LastStep /\ pre.opcode = 105) =>
        /\ panic = NO_PANIC /\ result = "Running"
        /\ register_a = (A_before + M + CarryIn) % 256
        /\ contains(status, CarryBit) <=> (A_before + M + CarryIn > 255)
        /\ contains(status, Overflow) <=>
              (Bit7(M) # Bit7(register_a) /\ Bit7(register_a) # Bit7(A_before))
        /\ contains(status, Overflow) <=>
              (as_i8(A_before) + as_i8(M) + CarryIn \notin -128..127)
        /\ ZeroNegativeOf(register_a)
        /\ AluOtherFlagsKept
        /\ (A_before = 255 /\ M = 1 /\ CarryIn = 0) =>
              /\ register_a = 0
              /\ contains(status, CarryBit) /\ contains(status, Zero)
              /\ ~contains(status, Overflow) /\ ~contains(status, Negative)

\* C9 witness: 0xFF + 0x01 with the carry clear
C9_Witness ==
    /\ LastStep /\ pre.opcode = 105
    /\ A_before = 255 /\ M = 1 /\ CarryIn = 0
    /\ register_a = 0 /\ contains(status, CarryBit) /\ contains(status, Zero)

\* C9, further case: 0x7F + 0x00 with the carry set overflows into 0x80
C9_WitnessOverflow ==
    /\ LastStep /\ pre.opcode = 105
    /\ A_before = 127 /\ M = 0 /\ CarryIn = 1
    /\ register_a = 128 /\ contains(status, Overflow) /\ ~contains(status, CarryBit)

\* C10: for every A, M and carry-in c, SBC leaves what a direct
\* subtract-with-borrow leaves: A = (A - M - (1 - c)) mod 256, Carry iff
\* A >= M + (1 - c), Overflow iff bit 7 of (A XOR M) AND (A XOR result) is
\* set (the signed difference leaves -128..127), Zero/Negative of the result.
C10_SbcIsSubtractWithBorrow ==
    (LastStep /\ pre.opcode = 233) =>
        /\ panic = NO_PANIC /\ result = "Running"
        /\ register_a = (A_before - M - (1 - CarryIn)) % 256
        /\ contains(status, CarryBit) <=> (A_before >= M + (1 - CarryIn))
        /\ contains(status, Overflow) <=>
              (Bit7(A_before) # Bit7(M) /\ Bit7(A_before) # Bit7(register_a))
        /\ contains(status, Overflow) <=>
              (as_i8(A_before) - as_i8(M) - (1 - CarryIn) \notin -128..127)
        /\ ZeroNegativeOf(register_a)
        /\ AluOtherFlagsKept

\* C10 witness: 0x50 - 0xB0 with the carry set: a borrow and a signed overflow
C10_Witness ==
    /\ LastStep /\ pre.opcode = 233
    /\ A_before = 80 /\ M = 176 /\ CarryIn = 1
    /\ register_a = 160
    /\ contains(status, Overflow) /\ ~contains(status, CarryBit)

\* C10, further cases: the operand 0x80, whose negation wraps; a borrow-in
C10_WitnessOperand80 ==
    /\ LastStep /\ pre.opcode = 233
    /\ A_before = 0 /\ M = 128 /\ CarryIn = 1
    /\ register_a = 128 /\ contains(status, Overflow)
C10_WitnessBorrowIn ==
    /\ LastStep /\ pre.opcode = 233
    /\ A_before = 5 /\ M = 5 /\ CarryIn = 0
    /\ register_a = 255 /\ ~contains(status, CarryBit) /\ contains(status, Negative)

\* The register the last step's compare instruction reads, before the step
CmpRegister ==
    CASE Fetched.repr = "CMP" -> pre.cpu.register_a
      [] Fetched.repr = "CPX" -> pre.cpu.register_x
      [] OTHER                -> pre.cpu.register_y

\* Its operand byte: immediate, or at the addressed zero-page byte
CmpOperand ==
    IF Fetched.mode = "Immediate" THEN byte_at(pre.cpu.memory, P + 1)
    ELSE byte_at(pre.cpu.memory, byte_at(pre.cpu.memory, P + 1))

\* C11: for every register value R (A for CMP, X for CPX, Y for CPY) and
\* operand M, the compare sets Carry iff M <= R, Zero iff R = M, Negative
\* iff bit 7 of (R - M) mod 256, and leaves the registers, the stack
\* pointer, the memory and the Overflow flag as they were; CPX with X = 5
\* against 5 sets Zero and Carry.
C11_Compare ==
    (LastStep /\ pre.opcode \in CmpImmediate \cup CmpZeroPage) =>
        /\ panic = NO_PANIC /\ result = "Running"
        /\ contains(status, CarryBit) <=> (CmpOperand <= CmpRegister)
        /\ contains(status, Zero) <=> (CmpRegister = CmpOperand)
        /\ contains(status, Negative) <=> Bit7((CmpRegister - CmpOperand) % 256)
        /\ register_a = pre.cpu.register_a
        /\ register_x = pre.cpu.register_x
        /\ register_y = pre.cpu.register_y
        /\ stack_pointer = pre.cpu.stack_pointer
        /\ memory = pre.cpu.memory
        /\ contains(status, Overflow) <=> contains(pre.cpu.status, Overflow)
        /\ AluOtherFlagsKept
        /\ (pre.opcode \in {224, 228} /\ CmpRegister = 5 /\ CmpOperand = 5) =>
              (contains(status, Zero) /\ contains(status, CarryBit))

\* C11 witness: CPX $10 with X = 5 and 5 at 0x0010
C11_Witness ==
    /\ LastStep /\ pre.opcode = 228
    /\ pre.cpu.register_x = 5 /\ byte_at(memory, 16) = 5
    /\ register_x = 5 /\ pre.cpu.register_a # 5
    /\ contains(status, Zero) /\ contains(status, CarryBit)
    /\ ~contains(status, Negative)

\* C11, further cases: CMP of 0x00 against 0x01 borrows; CPY 0x80 against 0x7F
C11_WitnessBelow ==
    /\ LastStep /\ pre.opcode = 201
    /\ pre.cpu.register_a = 0 /\ CmpOperand = 1
    /\ ~contains(status, CarryBit) /\ ~contains(status, Zero)
    /\ contains(status, Negative)
C11_WitnessCpy ==
    /\ LastStep /\ pre.opcode = 192
    /\ pre.cpu.register_y = 128 /\ CmpOperand = 127
    /\ contains(status, CarryBit) /\ ~contains(status, Negative)
    /\ contains(status, Overflow) /\ contains(pre.cpu.status, Overflow)

Branches == {"BCC", "BCS", "BEQ", "BNE", "BMI", "BPL", "BVC", "BVS"}

\* The signed displacement byte of the branch the last step fetched
Displacement == as_i8(byte_at(pre.cpu.memory, P + 1))

\* C12: a step on a 2-byte branch at P with signed displacement d ends with
\* the counter at (P + 2 + d) mod 65536 when the branch's flag has the
\* polarity it tests, and at P + 2 when it has not.
C12_BranchTarget ==
    (LastStep /\ Recognised /\ Fetched.repr \in Branches /\ panic = NO_PANIC) =>
        program_counter =
            IF BranchTaken(Fetched.repr, pre.cpu.status)
            THEN (P + 2 + Displacement) % U16_MOD
            ELSE (P + 2) % U16_MOD

\* What the code does instead: the trailing `program_counter += len - 1`
\* also runs after a taken branch, which ends one byte further
C12_TakenBranchOvershoots ==
    (LastStep /\ Recognised /\ Fetched.repr \in Branches /\ panic = NO_PANIC
       /\ BranchTaken(Fetched.repr, pre.cpu.status)) =>
        program_counter = (P + 3 + Displacement) % U16_MOD

\* The 16-bit operand of the 3-byte instruction the last step fetched
Operand16 == byte_at(pre.cpu.memory, P + 1) + 256 * byte_at(pre.cpu.memory, P + 2)

\* C13: a step on JMP absolute (0x4C) with operand T ends with the counter
\* equal to T, every register, flag, the stack pointer and the memory as
\* they were.
C13_JmpAbsolute ==
    (LastStep /\ pre.opcode = 76 /\ panic = NO_PANIC) =>
        /\ program_counter = Operand16
        /\ SameRegisters(pre.cpu)
        /\ memory = pre.cpu.memory

\* What the code does instead: the trailing `program_counter += len - 1`
\* moves the counter two bytes past T
C13_JmpOvershoots ==
    (LastStep /\ pre.opcode = 76 /\ panic = NO_PANIC) =>
        /\ program_counter = (Operand16 + 2) % U16_MOD
        /\ SameRegisters(pre.cpu)
        /\ memory = pre.cpu.memory

\* C14: with 0x40 at 0x30FF, 0x80 at 0x3000 and 0x50 at 0x3100, a step on
\* JMP ($30FF) ends with the counter at 0x4080.
C14_JmpIndirectPageBoundary ==
    (/\ LastStep /\ pre.opcode = 108 /\ Operand16 = 12543
     /\ byte_at(pre.cpu.memory, 12543) = 64
     /\ byte_at(pre.cpu.memory, 12288) = 128
     /\ byte_at(pre.cpu.memory, 12544) = 80)
        => (panic = NO_PANIC /\ program_counter = 16512)

\* What the code does there: low byte 0x40 from 0x30FF, high byte 0x80 from
\* 0x3000, and the trailing `program_counter += len - 1`: 0x8040 + 2
C14_CodeEndsAt8042 ==
    (/\ LastStep /\ pre.opcode = 108 /\ Operand16 = 12543
     /\ byte_at(pre.cpu.memory, 12543) = 64
     /\ byte_at(pre.cpu.memory, 12288) = 128
     /\ byte_at(pre.cpu.memory, 12544) = 80)
        => (panic = NO_PANIC /\ program_counter = 32834)

\* ... and with the bytes as the comment in the code places them (0x40 at
\* 0x3000, 0x80 at 0x30FF) the step ends at 0x4080 + 2
C14_CommentArrangementEndsAt4082 ==
    (/\ LastStep /\ pre.opcode = 108 /\ Operand16 = 12543
     /\ byte_at(pre.cpu.memory, 12543) = 128
     /\ byte_at(pre.cpu.memory, 12288) = 64
     /\ byte_at(pre.cpu.memory, 12544) = 80)
        => (panic = NO_PANIC /\ program_counter = 16514)

\* The return address the last JSR pushed: the address of its last byte
ReturnAddress == pre.call.at + 2

\* Before the last step, the stack pointer and the two return-address bytes
\* are as the last JSR left them
StackAsCallLeftIt ==
    /\ pre.call.at >= 0
    /\ pre.cpu.stack_pointer = (pre.call.sp - 2) % 256
    /\ byte_at(pre.cpu.memory, STACK + pre.call.sp) = High(ReturnAddress)
    /\ byte_at(pre.cpu.memory, STACK + ((pre.call.sp - 1) % 256)) = Low(ReturnAddress)

\* C15: when a JSR at P has been executed and an RTS is executed later with
\* the stack pointer and the two pushed bytes as the JSR left them, the RTS
\* step ends with the counter at P + 3 and the stack pointer as it was
\* before the JSR.
C15_JsrRtsRoundTrip ==
    (LastStep /\ pre.opcode = 96 /\ StackAsCallLeftIt) =>
        /\ panic = NO_PANIC /\ result = "Running"
        /\ program_counter = pre.call.at + 3
        /\ stack_pointer = pre.call.sp

\* C15 witness: JSR at 0x0600 with the stack pointer at 0 (the pushes wrap
\* to 0x01FF), a subroutine PHA; PLA; RTS, and the return to 0x0603
C15_Witness ==
    /\ LastStep /\ pre.opcode = 96 /\ StackAsCallLeftIt
    /\ pre.call.at = 1536 /\ pre.call.sp = 0 /\ steps = 4
    /\ program_counter = 1539 /\ stack_pointer = 0
    /\ byte_at(memory, 511) = 2 /\ byte_at(memory, 256) = 6

\* C15, further cases: RTS right after the JSR; an RTS that a PLA has
\* unbalanced returns elsewhere
C15_WitnessDirect ==
    /\ LastStep /\ pre.opcode = 96 /\ StackAsCallLeftIt /\ steps = 2
    /\ pre.call.at = 4350 /\ program_counter = 4353
C15_WitnessUnbalanced ==
    /\ LastStep /\ pre.opcode = 96 /\ ~StackAsCallLeftIt /\ pre.call.at = 1536
    /\ panic = NO_PANIC /\ program_counter # 1539

StackPage == 256..511     \* 0x0100..0x01FF

\* The addresses whose byte differs between two memories
Touched(before, after) ==
    {a \in DOMAIN before \cup DOMAIN after : byte_at(before, a) # byte_at(after, a)}

\* C16: the stack is a ring inside page 0x0100-0x01FF: from every stack
\* pointer a push writes its byte at 0x0100 + pointer and then decrements
\* the pointer modulo 256, a pop increments the pointer modulo 256 and then
\* returns the byte at 0x0100 + pointer, neither changes a byte outside the
\* page nor fails, and 256 consecutive pushes bring the pointer back to
\* where it was.
C16_StackRing ==
    /\ pre.op = "push" =>
          /\ panic = NO_PANIC
          /\ byte_at(memory, STACK + pre.before.stack_pointer) = pre.data
          /\ stack_pointer = (pre.before.stack_pointer - 1) % 256
          /\ Touched(pre.before.memory, memory) \subseteq
                 {STACK + pre.before.stack_pointer}
          /\ STACK + pre.before.stack_pointer \in StackPage
          /\ pre.pushes = 256 => stack_pointer = pre.first
    /\ pre.op = "pop" =>
          /\ panic = NO_PANIC
          /\ stack_pointer = (pre.before.stack_pointer + 1) % 256
          /\ pre.data = byte_at(pre.before.memory, STACK + stack_pointer)
          /\ STACK + stack_pointer \in StackPage
          /\ memory = pre.before.memory

\* C16 witness: 256 pushes in a row from pointer 0 (the first one wraps to
\* 0xFF) filled the page and left the bytes at 0x00FF and 0x0200 alone
C16_Witness ==
    /\ pre.op = "push" /\ pre.pushes = 256 /\ pre.first = 0 /\ stack_pointer = 0
    /\ \A a \in StackPage \ {256} : byte_at(memory, a) = PushFill
    /\ byte_at(memory, 256) = 255
    /\ byte_at(memory, 255) = 85 /\ byte_at(memory, 512) = 102

\* C16, further cases: a pop from 0xFF wraps to 0 and returns the byte at
\* 0x0100; a pop after a push returns the byte pushed
C16_WitnessPopWraps ==
    /\ pre.op = "pop" /\ pre.before.stack_pointer = 255 /\ stack_pointer = 0
    /\ pre.data = 17 /\ steps = 1
C16_WitnessPushPop ==
    /\ pre.op = "pop" /\ steps = 2 /\ pre.data = 1
    /\ pre.before.stack_pointer = 4 /\ stack_pointer = 5

\* C17: a memory read or write never fails, whatever the 16-bit address: a
\* write stores its byte, a read returns the last byte written at the
\* address (0 when none was), and no access ends in a panic.
C17_MemoryNeverFails ==
    /\ pre.op = "write" =>
          panic = NO_PANIC /\ byte_at(memory, pre.addr) = pre.data
    /\ pre.op = "read" =>
          panic = NO_PANIC /\ pre.data = byte_at(pre.before.memory, pre.addr)

\* What the code does: the array has 0xFFFF bytes, so an access fails
\* exactly when its address is 0xFFFF, and every other access is as C17
\* says
C17_FailsExactlyAtTop ==
    pre.op \in {"read", "write"} =>
        /\ panic # NO_PANIC <=> pre.addr = 65535
        /\ panic # NO_PANIC => panic = PanicMessage(ERR_BOUNDS) /\ memory = pre.before.memory
        /\ pre.addr # 65535 => C17_MemoryNeverFails

C17_WriteAtTopPanics ==
    pre.op = "write" /\ pre.addr = 65535 /\ pre.data = 1 /\ panic # NO_PANIC
C17_ReadBackBelowTop ==
    /\ pre.op = "read" /\ pre.addr = 65534 /\ pre.data = 255 /\ panic = NO_PANIC

\* The last step's instruction reaches past 0xFFFF: advancing the counter
\* over its bytes passes the end of the address range
PassesTop == LastStep /\ Recognised /\ P + Fetched.len > 65535

\* C18: the program counter wraps modulo 65536: a step whose advance of the
\* counter (by 1 after the fetch, by length - 1 after the execution) passes
\* 0xFFFF completes without an arithmetic failure and, when the instruction
\* is no jump and no taken branch, ends with the counter at
\* (P + length) mod 65536.
C18_CounterWraps ==
    PassesTop =>
        /\ panic # ADD_OVERFLOW
        /\ (/\ panic = NO_PANIC
            /\ Fetched.repr \notin ControlFlow
            /\ ~BranchTaken(Fetched.repr, pre.cpu.status))
              => program_counter = (P + Fetched.len) % U16_MOD

\* What the code does: `+=` on a u16 wraps only in a build without overflow
\* checks; the checking build ends the step with an arithmetic panic
C18_WrapsWithoutChecksOnly ==
    PassesTop =>
        /\ panic = ADD_OVERFLOW => overflow_checks
        /\ ~overflow_checks => C18_CounterWraps

\* BCC at 0xFFFE with the carry set: not taken, no operand read, and the
\* trailing advance by 1 from 0xFFFF overflows
C18_UntakenBranchAtTopPanics ==
    /\ PassesTop /\ pre.opcode = 144 /\ P = 65534 /\ contains(pre.cpu.status, CarryBit)
    /\ overflow_checks /\ panic = ADD_OVERFLOW
C18_UntakenBranchAtTopWraps ==
    /\ PassesTop /\ pre.opcode = 144 /\ P = 65534 /\ contains(pre.cpu.status, CarryBit)
    /\ ~overflow_checks /\ panic = NO_PANIC /\ program_counter = 0

\* The little-endian 16-bit value at 0xFFFC/0xFFFD of a memory
ResetVector(mem) == byte_at(mem, RESET_ADDRESS) + 256 * byte_at(mem, RESET_ADDRESS + 1)

\* What every reading of C19 says of reset: A and the flags cleared, the
\* counter from the vector, the stack pointer and the memory untouched
ResetCommon ==
    /\ panic = NO_PANIC
    /\ register_a = 0 /\ status = 0
    /\ program_counter = ResetVector(pre.before.memory)
    /\ stack_pointer = pre.before.stack_pointer
    /\ memory = pre.before.memory

\* C19 as stated: reset sets A to 0, clears every status flag, sets the
\* program counter to the little-endian value at 0xFFFC/0xFFFD, and leaves
\* register X, the stack pointer and all of memory as they were.
C19_ResetLeavesX ==
    pre.op = "reset" => ResetCommon /\ register_x = pre.before.register_x

\* C19 amended: reset sets A and X to 0, clears every status flag, sets the
\* program counter to the little-endian value at 0xFFFC/0xFFFD, and leaves
\* register Y, the stack pointer and all of memory as they were.
C19_ResetClearsAX ==
    pre.op = "reset" =>
        ResetCommon /\ register_x = 0 /\ register_y = pre.before.register_y

\* C19 witness: a reset after INX; BRK ran: A, X, Y, the flags and the
\* stack pointer were all non-zero before it, and the vector is 0x8001
C19_Witness ==
    /\ pre.op = "reset" /\ steps = 2
    /\ pre.before.register_a = 7 /\ pre.before.register_x = 93
    /\ pre.before.register_y = 177 /\ pre.before.stack_pointer = 58
    /\ pre.before.status = 65
    /\ register_a = 0 /\ register_x = 0 /\ status = 0
    /\ register_y = 177 /\ stack_pointer = 58
    /\ program_counter = 32769
    /\ pre.before.program_counter = GAME_START_ADDRESS + 2

\* C19, further case: a reset of the Cpu as load left it
C19_WitnessAfterLoad ==
    /\ pre.op = "reset" /\ steps = 0 /\ program_counter = GAME_START_ADDRESS
    /\ pre.before.register_x = 255 /\ register_x = 0 /\ register_y # 0

\* The target of JMP ($Q) as C20 states it, Q the operand of the last step
IndirectTarget ==
    LET Q == Operand16
        lo == byte_at(pre.cpu.memory, Q)
        hi == IF Q % 256 = 255
              THEN byte_at(pre.cpu.memory, Q - 255)      \* Q AND 0xFF00
              ELSE byte_at(pre.cpu.memory, Q + 1)
    IN  lo + 256 * hi

\* C20: a step on JMP indirect (0x6C) with pointer address Q takes the
\* target's low byte from memory[Q] and its high byte from
\* memory[Q AND 0xFF00] when the low byte of Q is 0xFF, from memory[Q + 1]
\* otherwise, and ends with the counter equal to that target.
C20_JmpIndirectTarget ==
    (LastStep /\ pre.opcode = 108) =>
        (panic = NO_PANIC /\ program_counter = IndirectTarget)

\* What the code does: the target is computed as C20 says, and the trailing
\* `program_counter += len - 1` then adds 2 to it
C20_JmpIndirectOvershoots ==
    (LastStep /\ pre.opcode = 108) =>
        (panic = NO_PANIC /\ program_counter = (IndirectTarget + 2) % U16_MOD)

C20_PointerAtPageEnd ==
    /\ LastStep /\ pre.opcode = 108 /\ Operand16 = 767 /\ IndirectTarget = 30738
    /\ program_counter = 30740
C20_PointerInsidePage ==
    /\ LastStep /\ pre.opcode = 108 /\ Operand16 = 766 /\ IndirectTarget = 4660
    /\ program_counter = 4662

\* What C21 says of the stack after a JSR at P: P + 2 pushed high byte
\* first, the stack pointer lowered by 2 modulo 256, nothing else written
JsrPushed ==
    /\ byte_at(memory, STACK + pre.cpu.stack_pointer) = High(P + 2)
    /\ byte_at(memory, STACK + ((pre.cpu.stack_pointer - 1) % 256)) = Low(P + 2)
    /\ stack_pointer = (pre.cpu.stack_pointer - 2) % 256
    /\ Touched(pre.cpu.memory, memory) \subseteq
           {STACK + pre.cpu.stack_pointer, STACK + ((pre.cpu.stack_pointer - 1) % 256)}

\* C21: a step on JSR at P with operand T pushes the return address P + 2
\* as two bytes, high byte first, lowers the stack pointer by 2 modulo 256,
\* and ends with the program counter equal to T.
C21_JsrPushesAndJumps ==
    (LastStep /\ pre.opcode = 32) =>
        /\ panic = NO_PANIC
        /\ JsrPushed
        /\ program_counter = Operand16

\* What the code does: the pushes are as C21 says, and the trailing
\* `program_counter += len - 1` leaves the counter at T + 2
C21_JsrOvershoots ==
    (LastStep /\ pre.opcode = 32) =>
        /\ panic = NO_PANIC
        /\ JsrPushed
        /\ program_counter = (Operand16 + 2) % U16_MOD

C21_JsrFromStackBottom ==
    /\ LastStep /\ pre.opcode = 32 /\ P = 4350 /\ pre.cpu.stack_pointer = 0
    /\ Operand16 = 1792 /\ program_counter = 1794 /\ stack_pointer = 254
    /\ byte_at(memory, 256) = 17 /\ byte_at(memory, 511) = 0

ShiftOps == {"ASL", "LSR", "ROL", "ROR"}

\* The operand of the last step's read-modify-write instruction: the
\* accumulator, or the byte at its zero-page or absolute address
OnAccumulator == Fetched.mode = "NoneAddressing"
ModifyAddress ==
    IF Fetched.mode = "ZeroPage" THEN byte_at(pre.cpu.memory, P + 1) ELSE Operand16
OperandBefore ==
    IF OnAccumulator THEN pre.cpu.register_a
    ELSE byte_at(pre.cpu.memory, ModifyAddress)
OperandAfter ==
    IF OnAccumulator THEN register_a ELSE byte_at(memory, ModifyAddress)

\* The bit shifted out, the bit shifted in, and the result
ShiftsLeft == Fetched.repr \in {"ASL", "ROL"}
ShiftedOut == IF ShiftsLeft THEN OperandBefore \div 128 ELSE OperandBefore % 2
ShiftedIn ==
    IF Fetched.repr \in {"ROL", "ROR"} /\ contains(pre.cpu.status, CarryBit)
    THEN 1 ELSE 0
Shifted ==
    IF ShiftsLeft THEN ((OperandBefore * 2) % 256) + ShiftedIn
    ELSE (OperandBefore \div 2) + 128 * ShiftedIn

\* The step shifted its operand in place and set the flags
ShiftDone ==
    /\ panic = NO_PANIC /\ result = "Running"
    /\ OperandAfter = Shifted
    /\ contains(status, CarryBit) <=> (ShiftedOut = 1)
    /\ ZeroNegativeOf(Shifted)
    /\ AluOtherFlagsKept
    /\ contains(status, Overflow) <=> contains(pre.cpu.status, Overflow)
    /\ IF OnAccumulator THEN memory = pre.cpu.memory
       ELSE register_a = pre.cpu.register_a
            /\ Touched(pre.cpu.memory, memory) \subseteq {ModifyAddress}

\* C22: ASL, LSR, ROL and ROR, on the accumulator and on memory, complete
\* without failure, set Carry to the bit shifted out (bit 7 for ASL/ROL,
\* bit 0 for LSR/ROR), shift the old Carry into the vacated bit for ROL and
\* ROR and 0 for ASL and LSR, store the result back to the same operand and
\* set Zero/Negative from the result.
C22_ShiftsAndRotates ==
    (LastStep /\ Recognised /\ Fetched.repr \in ShiftOps) => ShiftDone

\* What the code does: every form but ASL on the accumulator is as C22
\* says; ASL A (0x0A) resolves an operand address for NoneAddressing and
\* ends in todo!() with A and the flags untouched
C22_AllButAslAccumulator ==
    (LastStep /\ Recognised /\ Fetched.repr \in ShiftOps) =>
        IF pre.opcode = 10
        THEN /\ panic = NOT_IMPLEMENTED
             /\ register_a = pre.cpu.register_a /\ status = pre.cpu.status
             /\ memory = pre.cpu.memory
        ELSE ShiftDone

C22_AslAccumulatorPanics ==
    /\ LastStep /\ pre.opcode = 10 /\ pre.cpu.register_a = 129
    /\ panic = NOT_IMPLEMENTED /\ register_a = 129
C22_RorMemoryRotates ==
    /\ LastStep /\ pre.opcode = 102 /\ OperandBefore = 1
    /\ contains(pre.cpu.status, CarryBit) /\ OperandAfter = 128
    /\ contains(status, CarryBit) /\ contains(status, Negative) /\ panic = NO_PANIC
C22_RolAccumulatorRotates ==
    /\ LastStep /\ pre.opcode = 42 /\ OperandBefore = 128
    /\ ~contains(pre.cpu.status, CarryBit) /\ register_a = 0
    /\ contains(status, CarryBit) /\ contains(status, Zero) /\ panic = NO_PANIC

IncDecOps == {"INC", "DEC"}
\* +1 for INC, -1 for DEC
IncDecDelta == IF Fetched.repr = "INC" THEN 1 ELSE -1

\* C23: INC and DEC operate on memory: the byte at the effective address
\* becomes (old + 1) mod 256 for INC and (old - 1) mod 256 for DEC,
\* Zero/Negative are set from the new byte, and registers A, X and Y are
\* left unchanged.
C23_IncDecMemory ==
    (LastStep /\ Recognised /\ Fetched.repr \in IncDecOps) =>
        /\ panic = NO_PANIC
        /\ byte_at(memory, ModifyAddress) = (OperandBefore + IncDecDelta) % 256
        /\ ZeroNegativeOf((OperandBefore + IncDecDelta) % 256)
        /\ register_a = pre.cpu.register_a
        /\ register_x = pre.cpu.register_x
        /\ register_y = pre.cpu.register_y

\* What the code does: inc() and dec() take no addressing mode and add to
\* register A; the memory, X and Y are untouched and Zero/Negative are
\* those of the new A
C23_IncDecOnAccumulator ==
    (LastStep /\ Recognised /\ Fetched.repr \in IncDecOps) =>
        /\ panic = NO_PANIC
        /\ memory = pre.cpu.memory
        /\ register_a = (pre.cpu.register_a + IncDecDelta) % 256
        /\ ZeroNegativeOf(register_a)
        /\ OtherFlagsKept
        /\ register_x = pre.cpu.register_x
        /\ register_y = pre.cpu.register_y
        /\ program_counter = P + Fetched.len

C23_IncLeavesMemory ==
    /\ LastStep /\ pre.opcode = 230 /\ OperandBefore = 255 /\ pre.cpu.register_a = 6
    /\ byte_at(memory, ModifyZeroPage) = 255 /\ register_a = 7
    /\ ~contains(status, Zero) /\ panic = NO_PANIC
C23_DecAbsoluteWrapsA ==
    /\ LastStep /\ pre.opcode = 206 /\ pre.cpu.register_a = 0 /\ register_a = 255
    /\ byte_at(memory, ModifyAbsolute) = 249 /\ contains(status, Negative)

AllFlags ==
    {CarryBit, Zero, DisableInterrupts, DecimalMode, Break, Unused, Overflow, Negative}

\* C24: for every status byte, PHP pushes one byte equal to the status with
\* Break (0x10) and Unused (0x20) both set and the other six bits copied,
\* decrements the stack pointer by one, and leaves the live status
\* unchanged.
C24_PhpPushesStatus ==
    (LastStep /\ pre.opcode = 8) =>
        /\ panic = NO_PANIC /\ result = "Running"
        /\ \A flag \in AllFlags :
              contains(byte_at(memory, STACK + pre.cpu.stack_pointer), flag)
                  <=> (flag \in {Break, Unused} \/ contains(pre.cpu.status, flag))
        /\ stack_pointer = (pre.cpu.stack_pointer - 1) % 256
        /\ Touched(pre.cpu.memory, memory) \subseteq {STACK + pre.cpu.stack_pointer}
        /\ status = pre.cpu.status

\* C24 witness: PHP with only Negative and Carry set (0x81) and the stack
\* pointer at 0: 0xB1 is written at 0x0100, the pointer wraps to 0xFF and
\* the live status is still 0x81
C24_Witness ==
    /\ LastStep /\ pre.opcode = 8 /\ pre.cpu.status = 129
    /\ pre.cpu.stack_pointer = 0 /\ stack_pointer = 255
    /\ byte_at(memory, 256) = 177 /\ status = 129

\* The byte at depth k above the stack pointer before the last step
\* (k = 1: the top of the stack)
StackByte(k) == byte_at(pre.cpu.memory, STACK + ((pre.cpu.stack_pointer + k) % 256))

\* C25: for every byte b on top of the stack, PLP and RTI succeed and leave
\* the live status with Break clear, Unused set and the other six flags
\* equal to the bits of b; RTI then pops a 16-bit address, low byte first,
\* into the program counter.
C25_PlpRtiStatus ==
    (LastStep /\ pre.opcode \in {40, 64}) =>
        /\ panic = NO_PANIC /\ result = "Running"
        /\ \A flag \in AllFlags :
              contains(status, flag)
                  <=> (flag = Unused \/ (flag # Break /\ contains(StackByte(1), flag)))
        /\ memory = pre.cpu.memory
        /\ pre.opcode = 40 =>
              /\ stack_pointer = (pre.cpu.stack_pointer + 1) % 256
              /\ program_counter = P + 1
        /\ pre.opcode = 64 =>
              /\ stack_pointer = (pre.cpu.stack_pointer + 3) % 256
              /\ program_counter = StackByte(2) + 256 * StackByte(3)

\* C25 witness: RTI with 0xFF on top of the stack and 0x34, 0x12 under it,
\* the stack pointer at 0xFE so that the pops wrap: the status becomes 0xEF
\* and the counter 0x1234
C25_Witness ==
    /\ LastStep /\ pre.opcode = 64 /\ pre.cpu.stack_pointer = 254
    /\ StackByte(1) = 255 /\ pre.cpu.status = 0
    /\ status = 239 /\ program_counter = 4660 /\ stack_pointer = 1

\* C25, further cases: PLP of 0x10 (only Break) leaves only Unused; PLP
\* after PHP gives the status back but for those two bits
C25_WitnessPlpBreakOnly ==
    /\ LastStep /\ pre.opcode = 40 /\ StackByte(1) = 16 /\ pre.cpu.status = 255
    /\ status = 32 /\ panic = NO_PANIC
C25_WitnessPhpPlp ==
    /\ LastStep /\ pre.opcode = 40 /\ steps = 2 /\ pre.cpu.status = 129
    /\ status = 161 /\ stack_pointer = pre.cpu.stack_pointer + 1

\* The stack pointer before the last stack operation, and k bytes above it
PairBefore == pre.before.stack_pointer
PairByte(k) == byte_at(pre.before.memory, STACK + ((PairBefore + k) % 256))

\* C26: for every 16-bit value w and every stack pointer, the 16-bit push
\* writes the high byte of w first and then the low byte, the 16-bit pop
\* reads the low byte first and then the high byte, and a 16-bit push
\* followed at once by a 16-bit pop returns w and restores the stack
\* pointer; a byte push followed at once by a byte pop returns the byte.
C26_PushPopRoundTrip ==
    /\ pre.op = "push16" =>
          /\ panic = NO_PANIC
          /\ byte_at(memory, STACK + PairBefore) = High(pre.data)
          /\ byte_at(memory, STACK + ((PairBefore - 1) % 256)) = Low(pre.data)
          /\ stack_pointer = (PairBefore - 2) % 256
    /\ pre.op = "pop16" =>
          /\ panic = NO_PANIC
          /\ pre.data = PairByte(1) + 256 * PairByte(2)
          /\ stack_pointer = (PairBefore + 2) % 256
          /\ pre.prior.op = "push16" =>
                pre.data = pre.prior.data /\ stack_pointer = pre.prior.sp
    /\ (pre.op = "pop" /\ pre.prior.op = "push") =>
          /\ panic = NO_PANIC
          /\ pre.data = pre.prior.data
          /\ stack_pointer = pre.prior.sp

\* C26 witness: 0x1234 pushed from stack pointer 0 (0x12 at 0x0100, 0x34 at
\* 0x01FF) and popped back, the pointer at 0 again
C26_Witness ==
    /\ pre.op = "pop16" /\ pre.prior.op = "push16" /\ pre.prior.data = 4660
    /\ pre.data = 4660 /\ stack_pointer = 0 /\ PairBefore = 254
    /\ byte_at(memory, 256) = 18 /\ byte_at(memory, 511) = 52

\* C26, further cases: a byte pushed and popped at stack pointer 255; a
\* 16-bit pop of the initial memory reads the low byte first
C26_WitnessByte ==
    /\ pre.op = "pop" /\ pre.prior.op = "push" /\ pre.data = 129
    /\ stack_pointer = 255 /\ byte_at(memory, 511) = 129
C26_WitnessPopOnly ==
    /\ pre.op = "pop16" /\ pre.prior.op = "none" /\ PairBefore = 253
    /\ pre.data = 8755 /\ stack_pointer = 255

\* The operand of the last resolver call: the byte z under the program
\* counter, and the 16-bit base it forms with the next byte
OperandZ == byte_at(pre.before.memory, pre.before.program_counter)
OperandBase ==
    OperandZ + 256 * byte_at(pre.before.memory, pre.before.program_counter + 1)

\* The call changed nothing of the Cpu
Unchanged == Self = pre.before

\* C27: for every zero-page operand z and register value r the ZeroPageX
\* and ZeroPageY address is (z + r) mod 256, inside 0x0000-0x00FF; the
\* AbsoluteX and AbsoluteY address is (base + r) mod 65536; and resolving
\* changes no register, flag, memory byte or the program counter.
C27_IndexedAddress ==
    (pre.op = "resolve" /\ pre.mode \in IndexedModes) =>
        /\ Unchanged
        /\ pre.mode = "ZeroPageX" =>
              pre.data = (OperandZ + pre.before.register_x) % 256 /\ pre.data \in 0..255
        /\ pre.mode = "ZeroPageY" =>
              pre.data = (OperandZ + pre.before.register_y) % 256 /\ pre.data \in 0..255
        /\ pre.mode = "AbsoluteX" =>
              pre.data = (OperandBase + pre.before.register_x) % 65536
        /\ pre.mode = "AbsoluteY" =>
              pre.data = (OperandBase + pre.before.register_y) % 65536

\* C27 witness: z = 0xFF with X = 2 resolves to 0x0001, not 0x0101
C27_Witness ==
    /\ pre.op = "resolve" /\ pre.mode = "ZeroPageX" /\ OperandZ = 255
    /\ pre.before.register_x = 2 /\ pre.data = 1
    /\ register_x = 2 /\ status = 195 /\ program_counter = GAME_START_ADDRESS

\* C27, further case: base 0xFFFF with Y = 2 resolves to 0x0001
C27_WitnessAbsoluteWraps ==
    /\ pre.op = "resolve" /\ pre.mode = "AbsoluteY" /\ OperandBase = 65535
    /\ pre.before.register_y = 2 /\ pre.data = 1 /\ panic = NO_PANIC

\* The byte at address a of the zero page before the last resolver call
ZeroPageByte(a) == byte_at(pre.before.memory, a % 256)

\* C28: for IndirectX the pointer is (z + X) mod 256 and both target bytes
\* come from the zero page, the low byte at the pointer and the high byte
\* at (pointer + 1) mod 256; for IndirectY the base is read from the zero
\* page at z (low) and (z + 1) mod 256 (high), Y not added, and the
\* effective address is (base + Y) mod 65536.
C28_IndirectAddress ==
    (pre.op = "resolve" /\ pre.mode \in IndirectModes) =>
        /\ Unchanged
        /\ pre.mode = "IndirectX" =>
              pre.data = ZeroPageByte(OperandZ + pre.before.register_x)
                         + 256 * ZeroPageByte(OperandZ + pre.before.register_x + 1)
        /\ pre.mode = "IndirectY" =>
              pre.data = (ZeroPageByte(OperandZ) + 256 * ZeroPageByte(OperandZ + 1)
                          + pre.before.register_y) % 65536

\* C28 witness: z = 0xFE with X = 1: the pointer is 0xFF, the low byte
\* comes from 0x00FF (0xFC) and the high byte from 0x0000 (0x03), not from
\* 0x0100
C28_Witness ==
    /\ pre.op = "resolve" /\ pre.mode = "IndirectX" /\ OperandZ = 254
    /\ pre.before.register_x = 1 /\ pre.data = 1020
    /\ byte_at(memory, 256) = 238

\* C28, further case: IndirectY through z = 0xFF takes its high byte from
\* 0x0000 and adds Y to the 16-bit base
C28_WitnessIndirectY ==
    /\ pre.op = "resolve" /\ pre.mode = "IndirectY" /\ OperandZ = 255
    /\ pre.before.register_y = 86 /\ pre.data = 1020 + 86

\* The operand byte of the last step's LDX / LDY: immediate, or at the
\* addressed zero-page byte
IndexLoadOperand ==
    IF Fetched.mode = "Immediate" THEN byte_at(pre.cpu.memory, P + 1)
    ELSE byte_at(pre.cpu.memory, byte_at(pre.cpu.memory, P + 1))

\* C29: for every operand byte v, LDY sets register Y to v, leaves X and A
\* unchanged, and sets Zero iff v = 0 and Negative iff bit 7 of v is set, as
\* LDX does for register X.
C29_LdyLoadsY ==
    /\ (LastStep /\ Recognised /\ Fetched.repr = "LDY") =>
          /\ panic = NO_PANIC
          /\ register_y = IndexLoadOperand
          /\ register_x = pre.cpu.register_x
          /\ register_a = pre.cpu.register_a
          /\ ZeroNegativeOf(IndexLoadOperand)
    /\ (LastStep /\ Recognised /\ Fetched.repr = "LDX") =>
          /\ panic = NO_PANIC
          /\ register_x = IndexLoadOperand
          /\ register_y = pre.cpu.register_y
          /\ register_a = pre.cpu.register_a
          /\ ZeroNegativeOf(IndexLoadOperand)

\* What the code does: LDX is as C29 says; LDY stores the operand in
\* register X, leaves Y as it was and sets Zero/Negative from that old Y
C29_LdyWritesX ==
    /\ (LastStep /\ Recognised /\ Fetched.repr = "LDY") =>
          /\ panic = NO_PANIC
          /\ register_x = IndexLoadOperand
          /\ register_y = pre.cpu.register_y
          /\ register_a = pre.cpu.register_a
          /\ ZeroNegativeOf(pre.cpu.register_y)
          /\ OtherFlagsKept
          /\ memory = pre.cpu.memory
    /\ (LastStep /\ Recognised /\ Fetched.repr = "LDX") =>
          /\ panic = NO_PANIC
          /\ register_x = IndexLoadOperand
          /\ register_y = pre.cpu.register_y
          /\ register_a = pre.cpu.register_a
          /\ ZeroNegativeOf(IndexLoadOperand)
          /\ OtherFlagsKept
          /\ memory = pre.cpu.memory

C29_LdyImmediateMisses ==
    /\ LastStep /\ pre.opcode = 160 /\ IndexLoadOperand = 0
    /\ pre.cpu.register_y = 170 /\ pre.cpu.register_x = 85
    /\ register_y = 170 /\ register_x = 0
    /\ ~contains(status, Zero) /\ contains(status, Negative)
C29_LdxZeroPageLoads ==
    /\ LastStep /\ pre.opcode = 166 /\ IndexLoadOperand = 128
    /\ register_x = 128 /\ contains(status, Negative) /\ ~contains(status, Zero)

\* The code of a key as a character (the handler's own code for the keys
\* it maps, whatever their case)
KeyCodeOf(key) ==
    CASE key \in {"w", "W"} -> 119
      [] key \in {"a", "A"} -> 97
      [] key \in {"s", "S"} -> 115
      [] key \in {"d", "D"} -> 100
      [] key = "x" -> 120
      [] key = "1" -> 49
      [] key = "Enter" -> 13
      [] OTHER -> 38

LastKeyByte == byte_at(memory, LAST_PRESSED_BUTTON_ADDRESS)

\* A key event wrote at most the last-key byte and no register
OnlyLastKeyTouched ==
    /\ panic = NO_PANIC
    /\ Touched(pre.before.memory, memory) \subseteq {LAST_PRESSED_BUTTON_ADDRESS}
    /\ SameRegisters(pre.before)
    /\ program_counter = pre.before.program_counter

\* C30 as stated: on every key event the host writes the code of the key
\* just pressed to 0x00FF, so that byte holds the code of the most recent
\* event; the write touches no other memory byte or register.
C30_EveryKeyWritten ==
    pre.op = "key" => LastKeyByte = KeyCodeOf(pre.key) /\ OnlyLastKeyTouched

\* C30 amended: on a key event whose key is w, a, s or d in either case the
\* host writes the lower-case character code (0x77, 0x61, 0x73, 0x64) to
\* 0x00FF; an event with any other key writes nothing; so after any
\* sequence of key events the byte holds the code of the most recent
\* w/a/s/d event, or its earlier value when there was none; no other
\* memory byte or register is touched.
C30_MappedKeysWritten ==
    pre.op = "key" =>
        /\ OnlyLastKeyTouched
        /\ pre.key \in {"w", "W", "a", "A", "s", "S", "d", "D"} =>
              LastKeyByte = KeyCodeOf(pre.key)
        /\ pre.key \notin {"w", "W", "a", "A", "s", "S", "d", "D"} =>
              memory = pre.before.memory
        /\ pre.mapped >= 0 => LastKeyByte = pre.mapped

\* C30 witness: 'a', then 'D', then Enter: the byte holds 0x64, the code of
\* the D event, after the Enter event
C30_Witness ==
    /\ pre.op = "key" /\ steps = 3 /\ pre.key = "Enter" /\ pre.mapped = 100
    /\ LastKeyByte = 100 /\ pre.before.memory = memory
    /\ register_a = 77

\* C30, further case: an unmapped key as the first event leaves the byte
\* that was there
C30_WitnessIgnored ==
    /\ pre.op = "key" /\ steps = 1 /\ pre.key = "x" /\ pre.mapped = -1
    /\ LastKeyByte = 32

----------------------------------------------------------------------------
(* C31: the host loop *)

HostStep == pre.op = "frame"

\* The Cpu c with nothing but the byte at RNG_ADDRESS replaced by r
WithRandom(c, r) ==
    [c EXCEPT !.memory = [a \in (DOMAIN c.memory) \cup {RNG_ADDRESS} |->
                             IF a = RNG_ADDRESS THEN r ELSE c.memory[a]]]

\* C31: every call of run_next_cycle writes a byte in 1..15 to 0x00FE and
\* then executes exactly one step, which sees that byte; the game state
\* starts Paused with the frame loop inactive; the frame loop calls
\* run_next_cycle only while the game state is Running; a step that reports
\* Done leaves the game state Paused and the loop inactive; and the game
\* state goes from Paused to Running by a press of Start only.
C31_HostLoop ==
    /\ game_state \in {"Paused", "Running"}
    /\ game_loop = (game_state = "Running")
    /\ pre.op = "none" => game_state = "Paused"
    /\ HostStep =>
          /\ pre.rand \in 1..15
          /\ pre.cpu = WithRandom(pre.before, pre.rand)
          /\ steps = pre.steps + 1
          /\ Self = run_cycle_with_callback(pre.cpu, NoHook).cpu
          /\ result = "Done" <=> (Alive /\ pre.opcode = 0)
    /\ HostStep /\ pre.auto => pre.state = "Running" /\ pre.loop
    /\ HostStep /\ result = "Done" => game_state = "Paused"
    /\ HostStep /\ Alive /\ result # "Done" => game_state = pre.state
    /\ pre.op # "none" /\ pre.state = "Paused" /\ game_state = "Running"
          => pre.op = "start"
    /\ pre.op \in {"start", "stop", "reset"} => steps = pre.steps

\* The frame loop's step fetched BRK with 7 at 0x00FE: Done, now Paused
C31_Witness ==
    /\ HostStep /\ pre.auto /\ pre.state = "Running"
    /\ pre.rand = 7 /\ byte_at(memory, RNG_ADDRESS) = 7
    /\ pre.opcode = 0 /\ result = "Done"
    /\ game_state = "Paused" /\ ~game_loop

\* The program's LDA $FE read the byte of this frame
C31_WitnessRandomRead ==
    /\ HostStep /\ pre.auto /\ pre.opcode = 165
    /\ byte_at(pre.before.memory, RNG_ADDRESS) = 0
    /\ pre.rand = 15 /\ register_a = 15 /\ game_state = "Running"

\* After a Done and a press of Start the frame loop steps again
C31_WitnessRestarted ==
    /\ HostStep /\ pre.auto /\ pre.before.program_counter = GAME_START_ADDRESS + 1
    /\ byte_at(pre.before.memory, RNG_ADDRESS) # 0 /\ result = "Done"

----------------------------------------------------------------------------
(* C32: termination is not latched *)

\* The last step returned Done
Done == LastStep /\ result = "Done"

\* C32: a step that returned Done on the BRK at P left the Cpu as the fetch
\* saw it but for the counter, P + 1; the step that follows (when it returns)
\* starts from that very Cpu, fetched the byte at P + 1 and executed it: it
\* returned Done if that byte is BRK and Running otherwise, and its
\* post-state is the one a step of that Cpu gives, whatever came before.
C32_NoLatchedTermination ==
    [][(Done /\ steps' = steps + 1) =>
          /\ pre.opcode = 0 /\ SameRegisters(pre.cpu) /\ memory = pre.cpu.memory
          /\ program_counter = P + 1
          /\ pre'.op = "step" /\ pre'.before = Self
          /\ panic' = NO_PANIC =>
                /\ pre'.cpu.program_counter = P + 1
                /\ pre'.opcode = byte_at(memory, P + 1)
                /\ result' = IF pre'.opcode = 0 THEN "Done" ELSE "Running"
                /\ pre'.opcode # 0 =>
                      Self' = advance(execute([Self EXCEPT !.program_counter = P + 2],
                                              OPCODES_MAP[pre'.opcode]),
                                      OPCODES_MAP[pre'.opcode].len).cpu
                /\ pre'.opcode = 0 => Self' = [Self EXCEPT !.program_counter = P + 2]
    ]_vars

\* BRK at 0x0600 returned Done, then a step executed the INX at 0x0601
C32_Witness ==
    /\ LastStep /\ steps = 2 /\ byte_at(memory, GAME_START_ADDRESS) = 0
    /\ pre.before.program_counter = GAME_START_ADDRESS + 1
    /\ pre.opcode = 232 /\ result = "Running"
    /\ register_x = 2 /\ program_counter = GAME_START_ADDRESS + 2

\* ... and a second BRK behind the first returned Done again
C32_WitnessDoneAgain ==
    /\ LastStep /\ steps = 2 /\ byte_at(memory, GAME_START_ADDRESS) = 0
    /\ pre.before.program_counter = GAME_START_ADDRESS + 1
    /\ pre.opcode = 0 /\ result = "Done"

----------------------------------------------------------------------------
(* C33: DecimalMode and DisableInterrupts *)

DecimalOps == {"SED", "CLD", "PLP", "RTI"}
InterruptOps == {"SEI", "CLI", "PLP", "RTI"}

\* The Cpu c with the DecimalMode bit as b
WithDecimal(c, b) == [c EXCEPT !.status = set(c.status, DecimalMode, b)]

\* The last step with the DecimalMode bit before it inverted
OtherDecimal ==
    run_cycle_with_callback(
        WithDecimal(pre.before, ~contains(pre.before.status, DecimalMode)), NoHook).cpu

\* C33: a step changes the DecimalMode bit only when it executed SED, CLD,
\* PLP or RTI, and the DisableInterrupts bit only when it executed SEI,
\* CLI, PLP or RTI; a step that executed ADC or SBC leaves, from the same
\* Cpu with the DecimalMode bit inverted, the same registers, flags other
\* than DecimalMode, counter and memory.
C33_DecimalAndInterruptBits ==
    LastStep =>
        /\ contains(status, DecimalMode) # contains(pre.cpu.status, DecimalMode)
              => Recognised /\ Fetched.repr \in DecimalOps
        /\ contains(status, DisableInterrupts) # contains(pre.cpu.status, DisableInterrupts)
              => Recognised /\ Fetched.repr \in InterruptOps
        /\ (Recognised /\ Fetched.repr \in {"ADC", "SBC"}) =>
              /\ contains(status, DecimalMode) = contains(pre.cpu.status, DecimalMode)
              /\ WithDecimal(Self, FALSE) = WithDecimal(OtherDecimal, FALSE)

\* ADC #$01 with A = 9, DecimalMode set and carry clear gave 0x0A, and
\* DecimalMode is still set
C33_Witness ==
    /\ LastStep /\ pre.opcode = 105 /\ pre.cpu.status = 12
    /\ pre.cpu.register_a = 9 /\ byte_at(pre.cpu.memory, P + 1) = 1
    /\ register_a = 10 /\ status = 12

\* SED set the bit; PLP took both bits from the stack; a load kept them
C33_WitnessSed ==
    LastStep /\ pre.opcode = 248 /\ pre.cpu.status = 4 /\ status = 12

C33_WitnessPlp ==
    LastStep /\ pre.opcode = 40 /\ pre.cpu.status = 12 /\ status = 32

C33_WitnessLoad ==
    LastStep /\ pre.opcode = 169 /\ pre.cpu.status = 12 /\ status = 140

====
